---- MODULE Spec2Model ----
(***************************************************************************)
(* Model of the acquisition core of utube-script-scrapper:                 *)
(*   - the caption fallback engine  youtube_api.get_transcript_with_timestamps *)
(*   - the generative client        legacy/gemini_api.GeminiClient          *)
(* The external providers (youtube-transcript-api, google-genai) are the   *)
(* environment: every call outcome they can produce is a nondeterministic  *)
(* choice.                                                                 *)
(***************************************************************************)
EXTENDS Integers, Sequences, FiniteSets, TLC

\* ------------------------------------------------------------------ bounds
MaxLangs == 2        \* longest language-preference list
MaxEntries == 2      \* longest caption payload returned by the provider
MaxTracks == 2       \* most track handles in an enumerated track list
MaxRetry == 3        \* largest retry_count given to the client
MaxChars == 16       \* the character budget max_chars, scaled down from 30000
MaxTopics == 3       \* largest num_topics argument
MaxAnswer == 4       \* longest enumerated provider answer of the topic study
MaxId == 2           \* longest video identifier (scaled down from 11)
MaxSegs == 3         \* most segments of a freely composed locator
MaxPlaylist == 2     \* most entries in a provider's playlist answer
MaxItems == 3        \* most videos of a collection run by the command line

VARIABLES
    \* ---- caption engine (youtube_api.get_transcript_with_timestamps)
    caps,             \* provider operations that exist on the installed library
    languages,        \* the language-preference argument
    availLangs,       \* languages whose single-language static request succeeds
    pc,               \* position of the engine in its fallback chain
    langIdx,          \* loop index of the per-language loops (1-based)
    transcript_list,  \* the enumerated track handles (local transcript_list)
    result,           \* the value returned to the caller
    trace,            \* history: every provider interaction, in order
    usedStrategy,     \* history: strategy that produced the result (0: none)
    usedLang,         \* history: language requested by the successful call
    \* ---- generative client (legacy/gemini_api.GeminiClient)
    retry_count,      \* self.retry_count
    retry_delay,      \* self.retry_delay
    gop,              \* the public operation that is running
    transcript,       \* its transcript argument
    num_topics,       \* its num_topics argument
    text,             \* its local text (the text argument of translate_text)
    promptText,       \* the caption text placed into the prompt
    attempt,          \* loop variable of _make_api_call
    glog,             \* history: provider calls and sleeps, in order
    gresult,          \* the value returned to the caller
    gpc,              \* position of the operation
    api_return,      \* the value _make_api_call returned to the operation
    \* ---- _truncate_text_smartly on its own
    trunc_in,         \* the text argument
    trunc_out,        \* the returned text
    tpc,
    \* ---- enrichment service (core/ai_service.AIService)
    client,           \* self.client: "GeminiClient" or "None"
    available,        \* self.available
    sop,              \* the service operation that is running
    enable_summary,   \* arguments of enhance_transcript
    enable_translation,
    target_language,
    enable_topics,
    slog,             \* history: calls made on self.client, in order
    sresult,          \* the value returned to the caller
    sexc,             \* the exception that left the operation ("-": none)
    spc,              \* position of the operation
    \* ---- locators (youtube_api.extract_video_id, playlist_handler,
    \*      core/youtube_service.YouTubeService)
    url,              \* the locator argument
    shape,            \* history: the shape the locator was built in
    ident,            \* history: the identifier put into the locator
    lop,              \* the operation that is running
    video_id,         \* what extract_video_id returned
    playlist_id,      \* what extract_playlist_id returned
    lresult,          \* the value returned to the caller
    metadata,         \* the metadata record obtained
    ltranscript,      \* the caption payload obtained
    llog,             \* history: provider invocations, in order
    lexc,             \* the exception that left the operation ("-": none)
    lpc,              \* position of the operation
    \* ---- command line (legacy/cli.py main, process_single_video)
    args,             \* the parsed arguments and the client they lead to
    videos,           \* main's local videos: the working set
    done_count,       \* number of loop iterations completed
    success_count,    \* main's local success_count
    results,          \* history: what each process_single_video call did
    clog,             \* history: start and finish of every item, in order
    cpc               \* position of main

capVars == <<caps, languages, availLangs, pc, langIdx, transcript_list,
             result, trace, usedStrategy, usedLang>>
gemVars == <<retry_count, retry_delay, gop, transcript, num_topics, text,
             promptText, attempt, glog, gresult, gpc, api_return>>
truncVars == <<trunc_in, trunc_out, tpc>>
svcVars == <<client, available, sop, enable_summary, enable_translation,
             target_language, enable_topics, slog, sresult, sexc, spc>>
locVars == <<url, shape, ident, lop, video_id, playlist_id, lresult, metadata,
             ltranscript, llog, lexc, lpc>>
cliVars == <<args, videos, done_count, success_count, results, clog, cpc>>
vars == <<capVars, gemVars, truncVars, svcVars, locVars, cliVars>>

\* what the actions of one component leave alone
notCap == <<gemVars, truncVars, svcVars, locVars, cliVars>>
notGem == <<capVars, truncVars, svcVars, locVars, cliVars>>
notTrunc == <<capVars, gemVars, svcVars, locVars, cliVars>>
notSvc == <<capVars, gemVars, truncVars, locVars, cliVars>>
notLoc == <<capVars, gemVars, truncVars, svcVars>>
notCli == <<capVars, gemVars, truncVars, svcVars>>

\* ------------------------------------------------------- python values
Langs == {"ko", "en"}
Starts == {0, 1}
Ops == {"fetch", "get_transcript", "list", "list_transcripts"}

\* one canonical entry {start, duration, text}
CanonEntry(s) == [kind |-> "dict", start |-> s, duration |-> 1, text |-> "t"]
\* one FetchedTranscriptSnippet object (attributes, not keys)
Snippet(s) == [kind |-> "snippet", start |-> s, duration |-> 1, text |-> "t"]

StartSeqs == UNION {[1..n -> Starts] : n \in 0..MaxEntries}

PyList(items) == [type |-> "list", items |-> items]
NoValue == [type |-> "none", items |-> <<>>]
OtherPayload == [type |-> "other", items |-> <<>>]
ListPayload(ss) == PyList([i \in 1..Len(ss) |-> CanonEntry(ss[i])])
FetchedPayload(ss) ==
    [type |-> "FetchedTranscript", items |-> [i \in 1..Len(ss) |-> Snippet(ss[i])]]

\* what the static get_transcript call can return: a plain list
StaticPayloads == {ListPayload(ss) : ss \in StartSeqs}
\* what an instance fetch / a track handle's fetch can return
FetchPayloads ==
    StaticPayloads \cup {FetchedPayload(ss) : ss \in StartSeqs} \cup {OtherPayload}

Handles == [lang : Langs, manual : BOOLEAN]
TrackLists == UNION {[1..n -> Handles] : n \in 0..MaxTracks}
LangLists == UNION {[1..n -> Langs] : n \in 0..MaxLangs}

\* hasattr(x, 'snippets') / isinstance(x, list)
HasSnippets(x) == x.type = "FetchedTranscript"
IsList(x) == x.type = "list"

\* [{'start': s.start, 'duration': s.duration, 'text': s.text} for s in x.snippets]
SnippetsToDicts(x) ==
    PyList([i \in 1..Len(x.items) |->
              [kind |-> "dict", start |-> x.items[i].start,
               duration |-> x.items[i].duration, text |-> x.items[i].text]])

\* the conversion applied on the instance-based paths
NormalizeFetched(x) ==
    IF HasSnippets(x) THEN SnippetsToDicts(x)
    ELSE IF IsList(x) THEN x ELSE PyList(<<>>)

\* the legacy paths return the provider's value as it is
ReturnAsIs(x) == x

\* ------------------------------------------------------- control flow
StrategyOf(p) ==
    CASE p \in {"fetch", "get_full"} -> 1
      [] p = "per_lang" -> 2
      [] p = "no_lang" -> 3
      [] p \in {"list", "find", "lt", "lt_manual", "lt_generated"} -> 4
      [] p \in {"first", "lt_first"} -> 5
      [] OTHER -> 0

\* which exceptions the try-blocks around fetch / get_transcript / list handle
\* (except AttributeError: pass / except Exception: pass)
CatchesOnlyDataErrors(exc) == exc = "OtherException"
Catches(exc) == exc \in {"AttributeError", "OtherException"}

\* where control goes when the block at position p produced no result:
\* the statement order of the function body
FallthroughSwapped(p) ==
    CASE p = "fetch" -> "get_full"
      [] p = "get_full" -> "no_lang"
      [] p = "no_lang" -> "per_lang"
      [] p = "per_lang" -> "list"
      [] p = "list" -> "lt"
      [] p = "find" -> "first"
      [] p = "first" -> "lt"
      [] p = "lt_manual" -> "lt_generated"
      [] p = "lt_generated" -> "lt_first"
      [] OTHER -> "done"
Fallthrough(p) ==
    CASE p = "fetch" -> "get_full"
      [] p = "get_full" -> "per_lang"
      [] p = "per_lang" -> "no_lang"
      [] p = "no_lang" -> "list"
      [] p = "list" -> "lt"
      [] p = "find" -> "first"
      [] p = "first" -> "lt"
      [] p = "lt_manual" -> "lt_generated"
      [] p = "lt_generated" -> "lt_first"
      [] OTHER -> "done"

\* the per-language loop after a failed language: continue with the next one
BreakLoop(idx) == Len(languages) + 1
AfterLangFail(idx) == idx + 1

Entry(p, op, lang, outcome) ==
    [strategy |-> StrategyOf(p), op |-> op, lang |-> lang, outcome |-> outcome]

\* the engine moves on without a result
Advance(next, idx, e) ==
    /\ pc' = next
    /\ langIdx' = idx
    /\ trace' = Append(trace, e)
    /\ UNCHANGED <<result, usedStrategy, usedLang>>

\* the engine reacts to an exception raised by a provider call
Handle(exc, next, idx, e) ==
    IF Catches(exc) THEN Advance(next, idx, e)
    ELSE /\ pc' = "raised"
         /\ trace' = Append(trace, e)
         /\ UNCHANGED <<langIdx, result, usedStrategy, usedLang>>

\* the engine returns value v
Return(v, lang, e) ==
    /\ pc' = "done"
    /\ result' = v
    /\ usedStrategy' = e.strategy
    /\ usedLang' = lang
    /\ trace' = Append(trace, e)
    /\ UNCHANGED langIdx

\* the fallback chain ran out: print the message and return []
ReturnEmpty(e) ==
    /\ pc' = "done"
    /\ result' = PyList(<<>>)
    /\ trace' = Append(trace, e)
    /\ UNCHANGED <<langIdx, usedStrategy, usedLang>>

\* ------------------------------------------------------- python strings
\* a str is a sequence of characters; these two stand for U+3002 and U+2022
FullStop == "U+3002"
Bullet == "U+2022"
NL == "\n"

IsSpace(c) == c \in {" ", NL}

RECURSIVE LStrip(_)
LStrip(str) == IF str # <<>> /\ IsSpace(Head(str)) THEN LStrip(Tail(str)) ELSE str
RECURSIVE RStrip(_)
RStrip(str) ==
    IF str # <<>> /\ IsSpace(str[Len(str)])
    THEN RStrip(SubSeq(str, 1, Len(str) - 1)) ELSE str
\* str.strip()
Strip(str) == RStrip(LStrip(str))

\* str[:n] for n >= 0
Take(str, n) == SubSeq(str, 1, IF n < Len(str) THEN n ELSE Len(str))

\* sub occurs in str at 0-based index i
OccursAt(str, sub, i) ==
    /\ i + Len(sub) <= Len(str)
    /\ SubSeq(str, i + 1, i + Len(sub)) = sub

\* str.rfind(sub): 0-based index of the last occurrence, -1 if there is none
RFind(str, sub) ==
    LET S == {i \in 0..Len(str) : OccursAt(str, sub, i)}
    IN  IF S = {} THEN -1 ELSE CHOOSE i \in S : \A j \in S : j <= i

\* " ".join(parts)
RECURSIVE JoinSpace(_)
JoinSpace(parts) ==
    IF parts = <<>> THEN <<>>
    ELSE IF Len(parts) = 1 THEN parts[1]
    ELSE parts[1] \o <<" ">> \o JoinSpace(Tail(parts))

PyNone == [kind |-> "None", val |-> <<>>]
PyStr(str) == [kind |-> "str", val |-> str]
PyTopics(l) == [kind |-> "list", val |-> l]

\* ------------------------------------------------- GeminiClient helpers
\* a transcript entry: a dict that may lack the 'text' key
NoText == [has |-> FALSE, text |-> <<>>]
WithText(str) == [has |-> TRUE, text |-> str]

\* _combine_transcript_text
CombineUnfiltered(tr) ==
    IF tr = <<>> THEN <<>>
    ELSE JoinSpace([i \in 1..Len(tr) |-> Strip(tr[i].text)])
CombineTranscriptText(tr) ==
    IF tr = <<>> THEN <<>>
    ELSE LET kept == SelectSeq(tr, LAMBDA e : e.has /\ e.text # <<>>)
         IN  JoinSpace([i \in 1..Len(kept) |-> Strip(kept[i].text)])

max_chars == MaxChars

delimiters ==
    << <<".", " ">>, <<FullStop>>, <<"!", " ">>, <<"?", " ">>,
       <<NL, NL>>, <<".", NL>>, <<FullStop, NL>> >>

\* int(max_chars * 0.8)
MinLength(m) == (m * 8) \div 10

\* _truncate_text_smartly
TruncateTextSmartly(str, m) ==
    IF Len(str) <= m THEN str
    ELSE LET truncated == Take(str, m)
             min_length == MinLength(m)
             hits == {k \in 1..Len(delimiters) :
                        RFind(truncated, delimiters[k]) > min_length}
         IN  IF hits # {}
             THEN LET k == CHOOSE h \in hits : \A g \in hits : h <= g
                  IN  Take(str, RFind(truncated, delimiters[k]) + Len(delimiters[k]))
             ELSE LET last_space == RFind(truncated, <<" ">>)
                  IN  IF last_space > min_length THEN Take(str, last_space)
                      ELSE Take(str, m)

\* text[:max_chars] + "..." of generate_summary and extract_key_topics
LimitWithEllipsis(str) ==
    IF Len(str) > max_chars THEN Take(str, max_chars) \o <<".", ".", ".">> ELSE str

IdleCaption ==
    /\ caps = {}
    /\ languages = <<>>
    /\ availLangs = {}
    /\ pc = "idle"
    /\ langIdx = 1
    /\ transcript_list = <<>>
    /\ result = NoValue
    /\ trace = <<>>
    /\ usedStrategy = 0
    /\ usedLang = "-"

IdleGemini ==
    /\ retry_count = 0
    /\ retry_delay = 0
    /\ gop = "-"
    /\ transcript = <<>>
    /\ num_topics = 0
    /\ text = <<>>
    /\ promptText = PyNone
    /\ attempt = 0
    /\ glog = <<>>
    /\ gresult = PyNone
    /\ gpc = "idle"
    /\ api_return = PyNone

IdleTrunc ==
    /\ trunc_in = <<>>
    /\ trunc_out = <<>>
    /\ tpc = "idle"

\* the result dict of enhance_transcript, lines 311-316, and the plain return
\* value of the other operations
EnrichmentResult(v, su, tr, to) ==
    [value |-> v, summary |-> su, translation |-> tr, topics |-> to]
NoResult == EnrichmentResult(PyNone, PyNone, PyNone, PyNone)

IdleService ==
    /\ client = "None"
    /\ available = FALSE
    /\ sop = "-"
    /\ enable_summary = FALSE
    /\ enable_translation = FALSE
    /\ target_language = PyNone
    /\ enable_topics = FALSE
    /\ slog = <<>>
    /\ sresult = NoResult
    /\ sexc = "-"
    /\ spc = "idle"

\* what process_playlist_or_video returns
NoInfo == [kind |-> "None", video_count |-> 0, entries |-> <<>>]
Classified(type, vs, info) ==
    [type |-> type, videos |-> vs, playlist_info |-> info]
NoClassification == Classified("-", <<>>, NoInfo)

\* the dict of get_video_metadata
Metadata(t, d, c, u, dur, v) ==
    [kind |-> "dict", title |-> t, description |-> d, channel |-> c,
     upload_date |-> u, duration |-> dur, view_count |-> v]
NoMetadata ==
    [kind |-> "None", title |-> "-", description |-> "-", channel |-> "-",
     upload_date |-> "-", duration |-> 0, view_count |-> 0]

IdleLocator ==
    /\ url = <<>>
    /\ shape = "-"
    /\ ident = <<>>
    /\ lop = "-"
    /\ video_id = PyNone
    /\ playlist_id = PyNone
    /\ lresult = NoClassification
    /\ metadata = NoMetadata
    /\ ltranscript = NoValue
    /\ llog = <<>>
    /\ lexc = "-"
    /\ lpc = "idle"

\* the arguments of the command line that matter: the Gemini client (None or
\* not), the requested features, --max-videos (0: not given)
Args(c, f, m) == [client |-> c, features |-> f, max_videos |-> m]

IdleCli ==
    /\ args = Args(FALSE, {}, 0)
    /\ videos = <<>>
    /\ done_count = 0
    /\ success_count = 0
    /\ results = <<>>
    /\ clog = <<>>
    /\ cpc = "idle"

\* the components modelled after the first three, at rest
RestIdle == IdleService /\ IdleLocator /\ IdleCli

InitCaption ==
    /\ IdleGemini
    /\ IdleTrunc
    /\ RestIdle
    /\ caps \in SUBSET Ops
    /\ languages \in LangLists
    /\ availLangs \in SUBSET Langs
    /\ pc = "fetch"
    /\ langIdx = 1
    /\ transcript_list = <<>>
    /\ result = NoValue
    /\ trace = <<>>
    /\ usedStrategy = 0
    /\ usedLang = "-"

\* lines 110-124: api.fetch(video_id, languages=languages)
StepFetch ==
    /\ pc = "fetch"
    /\ UNCHANGED <<caps, languages, availLangs, transcript_list, notCap>>
    /\ IF "fetch" \notin caps
       THEN Handle("AttributeError", Fallthrough(pc), 1, Entry(pc, "fetch", "-", "absent"))
       ELSE \/ Handle("OtherException", Fallthrough(pc), 1, Entry(pc, "fetch", "-", "NotFound"))
            \/ \E p \in FetchPayloads :
                 Return(NormalizeFetched(p), "-", Entry(pc, "fetch", "-", "payload"))

\* lines 128-136: YouTubeTranscriptApi.get_transcript(video_id, languages=languages)
StepGetFull ==
    /\ pc = "get_full"
    /\ UNCHANGED <<caps, languages, availLangs, transcript_list, notCap>>
    /\ IF "get_transcript" \notin caps
       THEN Handle("AttributeError", Fallthrough(pc), 1,
                   Entry(pc, "get_transcript", "-", "absent"))
       ELSE \/ Handle("OtherException", Fallthrough(pc), 1,
                      Entry(pc, "get_transcript", "-", "NotFound"))
            \/ \E p \in StaticPayloads :
                 Return(ReturnAsIs(p), "-", Entry(pc, "get_transcript", "-", "payload"))

\* lines 139-145: for lang in languages: get_transcript(video_id, languages=[lang])
StepPerLang ==
    /\ pc = "per_lang"
    /\ UNCHANGED <<caps, languages, availLangs, transcript_list, notCap>>
    /\ IF "get_transcript" \in caps /\ langIdx <= Len(languages)
       THEN LET lang == languages[langIdx] IN
            IF lang \in availLangs
            THEN \E p \in StaticPayloads :
                   Return(ReturnAsIs(p), lang,
                          Entry(pc, "get_transcript", lang, "payload"))
            ELSE Advance("per_lang", AfterLangFail(langIdx),
                         Entry(pc, "get_transcript", lang, "NotFound"))
       ELSE \* hasattr is false, or the loop ran out
            /\ pc' = Fallthrough(pc)
            /\ langIdx' = 1
            /\ UNCHANGED <<trace, result, usedStrategy, usedLang>>

\* lines 148-153: get_transcript(video_id) without a language
StepNoLang ==
    /\ pc = "no_lang"
    /\ UNCHANGED <<caps, languages, availLangs, transcript_list, notCap>>
    /\ IF "get_transcript" \in caps
       THEN \/ Advance(Fallthrough(pc), 1, Entry(pc, "get_transcript", "-", "NotFound"))
            \/ \E p \in StaticPayloads :
                 Return(ReturnAsIs(p), "-", Entry(pc, "get_transcript", "-", "payload"))
       ELSE /\ pc' = Fallthrough(pc)
            /\ UNCHANGED <<langIdx, trace, result, usedStrategy, usedLang>>

\* lines 156-158 and 182-186: api.list(video_id)
StepList ==
    /\ pc = "list"
    /\ UNCHANGED <<caps, languages, availLangs, notCap>>
    /\ IF "list" \notin caps
       THEN /\ Handle("AttributeError", Fallthrough(pc), 1, Entry(pc, "list", "-", "absent"))
            /\ UNCHANGED transcript_list
       ELSE \/ /\ Handle("OtherException", Fallthrough(pc), 1, Entry(pc, "list", "-", "NotFound"))
               /\ UNCHANGED transcript_list
            \/ \E tl \in TrackLists :
                 /\ transcript_list' = tl
                 /\ Advance("find", 1, Entry(pc, "list", "-", "listed"))

\* lines 161-169: transcript_list.find_transcript(languages).fetch()
\* The library picks the handle; any handle in a preferred language may be it.
StepFind ==
    /\ pc = "find"
    /\ UNCHANGED <<caps, languages, availLangs, transcript_list, notCap>>
    /\ LET pref == {languages[i] : i \in 1..Len(languages)}
           cands == {i \in 1..Len(transcript_list) : transcript_list[i].lang \in pref}
       IN  \/ \* find_transcript or fetch raises: bare except, pass
              Advance(Fallthrough(pc), 1, Entry(pc, "find_transcript", "-", "NotFound"))
           \/ \E i \in cands : \E p \in FetchPayloads :
                 Return(NormalizeFetched(p), transcript_list[i].lang,
                        Entry(pc, "find_transcript", transcript_list[i].lang, "payload"))

\* lines 172-181: available = list(transcript_list); available[0].fetch()
StepFirst ==
    /\ pc = "first"
    /\ UNCHANGED <<caps, languages, availLangs, transcript_list, notCap>>
    /\ IF transcript_list = <<>>
       THEN Advance(Fallthrough(pc), 1, Entry(pc, "first", "-", "NotFound"))
       ELSE \/ Advance(Fallthrough(pc), 1,
                       Entry(pc, "first", transcript_list[1].lang, "NotFound"))
            \/ \E p \in FetchPayloads :
                 Return(NormalizeFetched(p), transcript_list[1].lang,
                        Entry(pc, "first", transcript_list[1].lang, "payload"))

\* lines 189-191 and 222-226: YouTubeTranscriptApi.list_transcripts(video_id)
StepListTranscripts ==
    /\ pc = "lt"
    /\ UNCHANGED <<caps, languages, availLangs, notCap>>
    /\ IF "list_transcripts" \notin caps
       THEN /\ pc' = "done"
            /\ result' = PyList(<<>>)
            /\ UNCHANGED <<langIdx, trace, usedStrategy, usedLang, transcript_list>>
       ELSE \/ /\ ReturnEmpty(Entry(pc, "list_transcripts", "-", "NotFound"))
               /\ UNCHANGED transcript_list
            \/ \E tl \in TrackLists :
                 /\ transcript_list' = tl
                 /\ Advance("lt_manual", 1, Entry(pc, "list_transcripts", "-", "listed"))

\* the handles of transcript_list in language lang, manual or generated
Matching(lang, manual) ==
    {i \in 1..Len(transcript_list) :
        transcript_list[i].lang = lang /\ transcript_list[i].manual = manual}

\* lines 194-213: for lang in languages: find_..._transcript([lang]).fetch()
FindLoop(here, op, manual) ==
    /\ pc = here
    /\ UNCHANGED <<caps, languages, availLangs, transcript_list, notCap>>
    /\ IF langIdx <= Len(languages)
       THEN LET lang == languages[langIdx] IN
            \/ \* no such track, or its fetch raises: bare except, continue
               Advance(here, AfterLangFail(langIdx), Entry(pc, op, lang, "NotFound"))
            \/ /\ Matching(lang, manual) # {}
               /\ \E p \in FetchPayloads :
                    Return(ReturnAsIs(p), lang, Entry(pc, op, lang, "payload"))
       ELSE /\ pc' = Fallthrough(here)
            /\ langIdx' = 1
            /\ UNCHANGED <<trace, result, usedStrategy, usedLang>>

StepFindManual ==
    FindLoop("lt_manual", "find_manually_created_transcript", TRUE)

StepFindGenerated ==
    FindLoop("lt_generated", "find_generated_transcript", FALSE)

\* lines 216-226: available_transcripts[0].fetch(), else the empty result
StepLtFirst ==
    /\ pc = "lt_first"
    /\ UNCHANGED <<caps, languages, availLangs, transcript_list, notCap>>
    /\ IF transcript_list = <<>>
       THEN ReturnEmpty(Entry(pc, "first", "-", "NotFound"))
       ELSE \/ ReturnEmpty(Entry(pc, "first", transcript_list[1].lang, "NotFound"))
            \/ \E p \in FetchPayloads :
                 Return(ReturnAsIs(p), transcript_list[1].lang,
                        Entry(pc, "first", transcript_list[1].lang, "payload"))

NextCaption ==
    \/ StepFetch
    \/ StepGetFull
    \/ StepPerLang
    \/ StepNoLang
    \/ StepList
    \/ StepFind
    \/ StepFirst
    \/ StepListTranscripts
    \/ StepFindManual
    \/ StepFindGenerated
    \/ StepLtFirst

Spec == InitCaption /\ [][NextCaption]_vars

\* ------------------------------------------------- caption engine claims
IsModern == caps = {"fetch", "list"}
IsLegacy == "get_transcript" \in caps /\ caps \subseteq {"get_transcript", "list_transcripts"}

TraceIdx == 1..Len(trace)
Failed(e) == e.outcome \in {"NotFound", "absent"}
AnyPayload == \E i \in TraceIdx : trace[i].outcome = "payload"
OfOp(op) == SelectSeq(trace, LAMBDA e : e.op = op)
OfStrategy(k) == SelectSeq(trace, LAMBDA e : e.strategy = k)
\* the entries of a per-language loop name the preferred languages in order
InPreferenceOrder(es) ==
    /\ Len(es) <= Len(languages)
    /\ \A i \in 1..Len(es) : es[i].lang = languages[i]
\* a per-language loop went through every preferred language without success
LoopExhausted(es) ==
    /\ Len(es) = Len(languages)
    /\ \A i \in 1..Len(es) : es[i].lang = languages[i] /\ Failed(es[i])

\* strategy k has been attempted to its end and yielded nothing
StrategyFailed(k) ==
    CASE k = 1 -> \E i \in TraceIdx : trace[i].strategy = 1 /\ trace[i].outcome = "NotFound"
      [] k = 2 -> LoopExhausted(OfStrategy(2))
      [] k = 3 -> \E i \in TraceIdx : trace[i].strategy = 3 /\ trace[i].outcome = "NotFound"
      [] k = 4 -> IF IsModern
                  THEN \E i \in TraceIdx :
                         trace[i].op = "find_transcript" /\ trace[i].outcome = "NotFound"
                  ELSE /\ LoopExhausted(OfOp("find_manually_created_transcript"))
                       /\ LoopExhausted(OfOp("find_generated_transcript"))
      [] OTHER -> FALSE

\* the strategies that come before strategy k on the installed generation
EarlierStrategies(k) ==
    IF IsModern THEN {j \in {1, 4} : j < k} ELSE {j \in 1..4 : j < k}

C2_EmptyOnlyAfterExhaustion ==
    (pc = "done" /\ result = PyList(<<>>)) =>
        /\ ~AnyPayload
        /\ \A op \in caps : \E i \in TraceIdx : trace[i].op = op

\* C3: a missing provider operation never escapes as an exception and never
\* ends the chain: when the engine finishes without any call having delivered
\* a payload, every strategy whose operation exists has been attempted.
C3_InterfaceAbsenceNeverEnds ==
    /\ pc # "raised"
    /\ (pc = "done" /\ ~AnyPayload) =>
          /\ \A op \in caps : \E i \in TraceIdx : trace[i].op = op /\ trace[i].outcome # "absent"
          /\ "get_transcript" \in caps =>
                /\ StrategyFailed(1)
                /\ StrategyFailed(2)
                /\ StrategyFailed(3)
          /\ \A i \in TraceIdx :
                trace[i].op = "list" /\ trace[i].outcome = "listed" =>
                    /\ \E j \in TraceIdx : j > i /\ trace[j].op = "find_transcript"
                    /\ \E j \in TraceIdx : j > i /\ trace[j].op = "first"
          /\ \A i \in TraceIdx :
                trace[i].op = "list_transcripts" /\ trace[i].outcome = "listed" =>
                    /\ LoopExhausted(OfOp("find_manually_created_transcript"))
                    /\ LoopExhausted(OfOp("find_generated_transcript"))
                    /\ trace[Len(trace)].op = "first"

C3_Witness ==
    /\ pc = "done"
    /\ caps = {"list_transcripts"}
    /\ Len(SelectSeq(trace, LAMBDA e : e.outcome = "absent")) = 3
    /\ usedStrategy = 5

\* the first preferred language that is individually available (0: none)
FirstAvailable ==
    LET S == {i \in 1..Len(languages) : languages[i] \in availLangs}
    IN  IF S = {} THEN 0 ELSE CHOOSE i \in S : \A j \in S : i <= j

\* C4: static-only provider, the full-list call finds nothing, some preferred
\* language is individually available: the engine returns the track of the
\* first such language from the per-language strategy, and nothing is raised.
C4_LegacyPerLanguage ==
    caps = {"get_transcript"} =>
        /\ pc # "raised"
        /\ (/\ pc = "done"
            /\ \E i \in TraceIdx :
                  /\ trace[i].op = "get_transcript"
                  /\ trace[i].strategy = 1
                  /\ trace[i].outcome = "NotFound"
            /\ FirstAvailable # 0)
           => /\ usedStrategy = 2
              /\ usedLang = languages[FirstAvailable]
              /\ result \in StaticPayloads
              /\ trace[Len(trace)] =
                    [strategy |-> 2, op |-> "get_transcript",
                     lang |-> languages[FirstAvailable], outcome |-> "payload"]

C4_Witness ==
    /\ caps = {"get_transcript"}
    /\ pc = "done"
    /\ FirstAvailable = 2
    /\ usedStrategy = 2
    /\ usedLang = languages[2]

\* {start, duration, text} entries in a plain list
IsCanonical(v) ==
    /\ v.type = "list"
    /\ \A i \in 1..Len(v.items) : v.items[i].kind = "dict"

\* C5: whatever the engine returns is a list of canonical entries.
C5_ResultCanonical == pc = "done" => IsCanonical(result)
\* =================================================== generative client
GOps == {"generate_summary", "translate_text", "translate_transcript",
         "extract_key_topics"}
Delays == {1, 2}
Digits == {"1", "2", "3"}

Filler(n) == [i \in 1..n |-> "a"]

\* texts one character longer than the budget, with the last characters of
\* the budget window varying
LongSamples ==
    {Filler(max_chars - 2) \o t \o <<"a">> : t \in [1..2 -> {"a", " ", "."}]}

GTexts == {<<>>, <<" ">>, <<"a">>, <<" ", "a", " ">>} \cup LongSamples

GTranscripts ==
    {<<>>}
    \cup {<<e>> : e \in {NoText, WithText(<<>>), WithText(<<" ">>), WithText(<<"a">>)}}
    \cup {<<WithText(t)>> : t \in LongSamples}
    \cup {<<e, f>> : e, f \in {NoText, WithText(<<>>), WithText(<<" ">>),
                                WithText(<<"a">>)}}

\* what one provider invocation can do: raise, answer without a text, or
\* answer with a text (possibly the empty one)
RespTexts ==
    {<<>>, <<" ">>, <<"A">>,
     <<"-", " ", "A", NL, "*", " ", "B", NL, "3", ".", " ", "C">>}
ProviderOutcomes ==
    {[kind |-> "exception", text |-> <<>>], [kind |-> "no_text", text |-> <<>>]}
    \cup {[kind |-> "text", text |-> t] : t \in RespTexts}

OutcomeTag(o) ==
    IF o.kind = "text" THEN (IF o.text = <<>> THEN "empty" ELSE "text") ELSE o.kind

\* line 151 negated: response and hasattr(response, 'text') and response.text
IsUsableWithoutTextCheck(o) == o.kind = "text"
IsUsable(o) == o.kind = "text" /\ o.text # <<>>

\* line 137: for attempt in range(self.retry_count)
LoopBoundPlusOne == retry_count + 1
LoopBound == retry_count

\* line 157: except Exception inside _make_api_call
ApiCallCatches(exc) == exc = "Exception"
\* the try/except Exception of the public operation around _make_api_call
\* (translate_transcript runs it inside translate_text)
WrapperCatches(op, exc) == exc = "Exception"

\* str.split('\n')
RECURSIVE SplitLines(_)
SplitLines(str) ==
    LET S == {i \in 1..Len(str) : str[i] = NL}
    IN  IF S = {} THEN <<str>>
        ELSE LET i == CHOOSE k \in S : \A j \in S : k <= j
             IN  <<SubSeq(str, 1, i - 1)>> \o SplitLines(SubSeq(str, i + 1, Len(str)))

\* re.sub(r'^\d+\.\s*', '', line)
StripOrdinal(line) ==
    LET nd == Cardinality({i \in 1..Len(line) : \A j \in 1..i : line[j] \in Digits})
    IN  IF nd >= 1 /\ Len(line) > nd /\ line[nd + 1] = "."
        THEN LStrip(SubSeq(line, nd + 2, Len(line)))
        ELSE line

\* lines 443-454: the topic of one line (empty: the line gives none)
TopicOf(raw) ==
    LET line == Strip(raw)
    IN  IF line # <<>> /\ Head(line) \in {"-", Bullet, "*"} THEN Strip(Tail(line))
        ELSE IF line # <<>> THEN Strip(StripOrdinal(line))
        ELSE <<>>

\* l[:n]
SliceToAll(l, n) == l
SliceTo(l, n) ==
    IF n >= 0 THEN Take(l, n)
    ELSE IF Len(l) + n > 0 THEN Take(l, Len(l) + n) ELSE <<>>

\* lines 441-457
ParseTopics(topics_text, n) ==
    LET lines == SplitLines(topics_text)
        topics == SelectSeq([i \in 1..Len(lines) |-> TopicOf(lines[i])],
                            LAMBDA t : t # <<>>)
    IN  SliceTo(topics, n)

\* what the public operation makes of the value of _make_api_call
Post(op, r) ==
    IF op = "extract_key_topics"
    THEN IF r.kind = "None" \/ r.val = <<>> THEN PyNone
         ELSE LET topics == ParseTopics(r.val, num_topics)
              IN  IF topics = <<>> THEN PyNone ELSE PyTopics(topics)
    ELSE r

InitGemini ==
    /\ IdleCaption
    /\ IdleTrunc
    /\ RestIdle
    /\ retry_count \in 0..MaxRetry
    /\ retry_delay \in Delays
    /\ gop \in GOps
    /\ IF gop = "translate_text"
       THEN transcript = <<>> /\ text \in GTexts
       ELSE transcript \in GTranscripts /\ text = <<>>
    /\ num_topics \in (IF gop = "extract_key_topics" THEN 1..MaxTopics ELSE {5})
    /\ promptText = PyNone
    /\ attempt = 0
    /\ glog = <<>>
    /\ gresult = PyNone
    /\ gpc = "start"
    /\ api_return = PyNone

GFixed == <<retry_count, retry_delay, gop, transcript, num_topics>>

\* the operation gives up before any provider call
ReturnNoneEarly(t) ==
    /\ text' = t
    /\ gresult' = PyNone
    /\ gpc' = "done"
    /\ UNCHANGED <<promptText, attempt, glog, api_return>>

\* the prompt is built around t and _make_api_call starts
BeginCall(t) ==
    /\ text' = t
    /\ promptText' = PyStr(t)
    /\ gpc' = "call"
    /\ UNCHANGED <<attempt, glog, gresult, api_return>>

\* generate_summary, lines 187-233, and extract_key_topics, lines 388-434
StartFromTranscript(op) ==
    /\ gpc = "start"
    /\ gop = op
    /\ UNCHANGED <<GFixed, notGem>>
    /\ IF transcript = <<>> THEN ReturnNoneEarly(text)
       ELSE LET combined == CombineTranscriptText(transcript)
            IN  IF combined = <<>> THEN ReturnNoneEarly(combined)
                ELSE BeginCall(LimitWithEllipsis(combined))

StartSummary == StartFromTranscript("generate_summary")

StartTopics == StartFromTranscript("extract_key_topics")

\* translate_text, lines 300-336, on text t
TranslateTextBody(t) ==
    IF t = <<>> \/ Strip(t) = <<>> THEN ReturnNoneEarly(t)
    ELSE BeginCall(IF Len(t) > max_chars THEN TruncateTextSmartly(t, max_chars) ELSE t)

StartTranslateText ==
    /\ gpc = "start"
    /\ gop = "translate_text"
    /\ UNCHANGED <<GFixed, notGem>>
    /\ TranslateTextBody(text)

\* translate_transcript, lines 364-369
StartTranslateTranscript ==
    /\ gpc = "start"
    /\ gop = "translate_transcript"
    /\ UNCHANGED <<GFixed, notGem>>
    /\ IF transcript = <<>> THEN ReturnNoneEarly(text)
       ELSE TranslateTextBody(CombineTranscriptText(transcript))

CallEvent(o) ==
    [ev |-> "call", n |-> attempt + 1, outcome |-> OutcomeTag(o), text |-> o.text]
SleepEvent(d) == [ev |-> "sleep", n |-> d, outcome |-> "-", text |-> <<>>]

\* _make_api_call returns r and the public operation returns
Finish(r) ==
    /\ api_return' = r
    /\ gresult' = Post(gop, r)
    /\ gpc' = "done"
    /\ UNCHANGED attempt

\* _make_api_call, lines 137-166: one iteration of the loop, the provider
\* doing o
ApiAttemptWith(o) ==
    /\ gpc = "call"
    /\ attempt < LoopBound
    /\ UNCHANGED <<GFixed, text, promptText, notGem>>
    /\ IF o.kind = "exception"
       THEN IF ~ApiCallCatches("Exception")
            THEN /\ glog' = Append(glog, CallEvent(o))
                 /\ IF WrapperCatches(gop, "Exception")
                    THEN /\ gresult' = PyNone
                         /\ gpc' = "done"
                    ELSE /\ gpc' = "raised"
                         /\ UNCHANGED gresult
                 /\ UNCHANGED <<attempt, api_return>>
            ELSE IF attempt < retry_count - 1
            THEN /\ glog' = glog \o <<CallEvent(o),
                                       SleepEvent(retry_delay * (attempt + 1))>>
                 /\ attempt' = attempt + 1
                 /\ UNCHANGED <<gresult, gpc, api_return>>
            ELSE /\ glog' = Append(glog, CallEvent(o))
                 /\ Finish(PyNone)
       ELSE IF ~IsUsable(o)
       THEN /\ glog' = Append(glog, CallEvent(o))
            /\ attempt' = attempt + 1
            /\ UNCHANGED <<gresult, gpc, api_return>>
       ELSE /\ glog' = Append(glog, CallEvent(o))
            /\ Finish(PyStr(Strip(o.text)))

ApiAttempt == \E o \in ProviderOutcomes : ApiAttemptWith(o)

\* _make_api_call, line 168: the loop ran out
ApiExhausted ==
    /\ gpc = "call"
    /\ attempt >= LoopBound
    /\ UNCHANGED <<GFixed, text, promptText, glog, notGem>>
    /\ Finish(PyNone)

NextGemini ==
    \/ StartSummary
    \/ StartTopics
    \/ StartTranslateText
    \/ StartTranslateTranscript
    \/ ApiAttempt
    \/ ApiExhausted

SpecGemini == InitGemini /\ [][NextGemini]_vars


\* ---- extract_key_topics over every short provider answer
TopicAlphabet == {"-", "*", Bullet, "3", ".", " ", NL, "A"}
TopicExample == <<"-", " ", "A", NL, "*", " ", "B", NL, "3", ".", " ", "C">>
AnswerTexts ==
    UNION {[1..n -> TopicAlphabet] : n \in 0..MaxAnswer} \cup {TopicExample}
TopicOutcomes == {[kind |-> "text", text |-> t] : t \in AnswerTexts}

InitTopics ==
    /\ IdleCaption
    /\ IdleTrunc
    /\ RestIdle
    /\ retry_count = 1
    /\ retry_delay = 1
    /\ gop = "extract_key_topics"
    /\ transcript = <<WithText(<<"a">>)>>
    /\ text = <<>>
    /\ num_topics \in 1..MaxTopics
    /\ promptText = PyNone
    /\ attempt = 0
    /\ glog = <<>>
    /\ gresult = PyNone
    /\ gpc = "start"
    /\ api_return = PyNone

TopicsAttempt == \E o \in TopicOutcomes : ApiAttemptWith(o)

NextTopics ==
    \/ StartTopics
    \/ TopicsAttempt
    \/ ApiExhausted

SpecTopics == InitTopics /\ [][NextTopics]_vars

\* ---------------------------------------------- generative client claims
Calls == SelectSeq(glog, LAMBDA e : e.ev = "call")
NoUsablePayload == \A i \in 1..Len(glog) : glog[i].outcome # "text"

\* C6: one logical call invokes the provider at most retry_count times,
\* makes no invocation after the first non-empty payload, and makes exactly
\* retry_count invocations when every attempt fails.
C6_RetryBound ==
    /\ Len(Calls) <= retry_count
    /\ \A i \in 1..Len(Calls) : Calls[i].n = i
    /\ \A i \in 1..Len(glog) :
          glog[i].outcome = "text" => (i = Len(glog) /\ gpc = "done")
    /\ (gpc = "done" /\ promptText.kind = "str" /\ NoUsablePayload)
          => Len(Calls) = retry_count

C6_Witness ==
    /\ gpc = "done"
    /\ retry_count = 3
    /\ Len(Calls) = 3
    /\ Calls[1].outcome = "exception"
    /\ Calls[2].outcome = "empty"
    /\ Calls[3].outcome = "no_text"

\* C7: an attempt n that is followed by another attempt is followed first by
\* a wait of retry_delay * n, whatever made it fail; the last attempt is
\* followed by no wait.
C7_BackoffBeforeEveryRetry ==
    \A i \in 1..Len(glog) :
        glog[i].ev = "call" =>
            LET retried == \E j \in (i + 1)..Len(glog) : glog[j].ev = "call"
            IN  /\ retried => glog[i + 1] = SleepEvent(retry_delay * glog[i].n)
                /\ (gpc = "done" /\ ~retried) => i = Len(glog)

\* C8: the four public operations never raise, and return None when no
\* attempt delivered a non-empty payload.
C8_NeverRaises ==
    /\ gpc # "raised"
    /\ (gpc = "done" /\ NoUsablePayload) => gresult = PyNone

C8_Witness ==
    /\ gpc = "done"
    /\ gop = "translate_transcript"
    /\ retry_count = 2
    /\ Len(Calls) = 2
    /\ Calls[1].outcome = "exception"
    /\ Calls[2].outcome = "exception"
    /\ gresult = PyNone

\* C9: the caption text inside the prompt is never longer than the budget.
C9_PromptWithinBudget ==
    promptText.kind = "str" => Len(promptText.val) <= max_chars

\* every entry of the transcript argument has an empty or a missing text
EmptyCaption ==
    \A i \in 1..Len(transcript) : ~transcript[i].has \/ transcript[i].text = <<>>

\* C12: on an empty caption text (no entries, or only entries whose text is
\* empty or missing) generate_summary returns None and the provider is
\* invoked zero times.
C12_EmptyCaptionNoCall ==
    (gop = "generate_summary" /\ EmptyCaption) =>
        /\ Calls = <<>>
        /\ gpc \notin {"call", "raised"}
        /\ gpc = "done" => gresult = PyNone

C12_Witness ==
    /\ gop = "generate_summary"
    /\ gpc = "done"
    /\ transcript = <<NoText, WithText(<<>>)>>
    /\ glog = <<>>
    /\ gresult = PyNone

\* the provider answer the topic parser worked on
ProviderOutput == glog[Len(glog)].text
BulletMarkers == {"-", Bullet, "*"}
\* length of a leading ordinal marker "<digits>." of l (0: there is none)
OrdinalLen(l) ==
    LET D == {d \in 1..Len(l) - 1 :
                (\A k \in 1..d : l[k] \in Digits) /\ l[d + 1] = "."}
    IN  IF D = {} THEN 0 ELSE CHOOSE d \in D : TRUE
\* a line with its one leading marker taken off
Unmarked(line) ==
    LET l == Strip(line)
    IN  IF l = <<>> THEN <<>>
        ELSE IF Head(l) \in BulletMarkers THEN Strip(Tail(l))
        ELSE IF OrdinalLen(l) > 0
             THEN Strip(SubSeq(l, OrdinalLen(l) + 2, Len(l)))
        ELSE l
\* 1-based positions of the lines of out that carry a topic
TopicLines(out) ==
    {i \in 1..Len(SplitLines(out)) : Unmarked(SplitLines(out)[i]) # <<>>}
\* the k-th smallest element of the set S of numbers
KthOf(S, k) == CHOOSE i \in S : Cardinality({j \in S : j <= i}) = k
Min2(a, b) == IF a < b THEN a ELSE b

\* C11: extract_key_topics returns the topics of the non-blank lines of the
\* provider answer in line order, each with one leading bullet or ordinal
\* marker removed, cut to the first num_topics; None when no topic remains;
\* "- A", "* B", "3. C" give ["A", "B", "C"].
C11_TopicsParsed ==
    (gop = "extract_key_topics" /\ gpc = "done" /\ api_return.kind = "str") =>
        LET out == ProviderOutput
            T == TopicLines(out)
            n == Min2(num_topics, Cardinality(T))
        IN  /\ IF n = 0 THEN gresult = PyNone
               ELSE /\ gresult.kind = "list"
                    /\ Len(gresult.val) = n
                    /\ \A k \in 1..n :
                          gresult.val[k] = Unmarked(SplitLines(out)[KthOf(T, k)])
            /\ (out = TopicExample /\ num_topics >= 3) =>
                  gresult = PyTopics(<< <<"A">>, <<"B">>, <<"C">> >>)

C11_Witness ==
    /\ gpc = "done"
    /\ ProviderOutput = TopicExample
    /\ num_topics = 2
    /\ gresult = PyTopics(<< <<"A">>, <<"B">> >>)

\* ============================================== _truncate_text_smartly
Alphabet == {"a", " ", ".", FullStop, "!", "?", NL}

\* a filler up to the 80% mark, then every tail over the alphabet that
\* reaches at most one character past the budget
TruncInputs ==
    {Filler(MinLength(max_chars)) \o t :
        t \in UNION {[1..k -> Alphabet] : k \in 0..(max_chars - MinLength(max_chars) + 1)}}

InitTruncate ==
    /\ IdleCaption
    /\ IdleGemini
    /\ RestIdle
    /\ trunc_in \in TruncInputs
    /\ trunc_out = <<>>
    /\ tpc = "start"

Truncate ==
    /\ tpc = "start"
    /\ trunc_out' = TruncateTextSmartly(trunc_in, max_chars)
    /\ tpc' = "done"
    /\ UNCHANGED <<trunc_in, notTrunc>>

NextTruncate == Truncate

SpecTruncate == InitTruncate /\ [][NextTruncate]_vars

\* where a cut right after a delimiter lying in the last 20% of the budget
\* window can fall
DelimiterEnds ==
    LET window == Take(trunc_in, max_chars)
    IN  {i + Len(delimiters[k]) : <<i, k>> \in
            {ik \in (0..max_chars) \X (1..Len(delimiters)) :
                /\ ik[1] > MinLength(max_chars)
                /\ OccursAt(window, delimiters[ik[2]], ik[1])}}

\* C10: a truncated text with delimiters in the last 20% of the budget window
\* is cut right after the delimiter occurrence nearest to the budget boundary.
C10_CutAtNearestDelimiter ==
    (tpc = "done" /\ Len(trunc_in) > max_chars /\ DelimiterEnds # {}) =>
        trunc_out = Take(trunc_in, CHOOSE e \in DelimiterEnds :
                                       \A f \in DelimiterEnds : f <= e)
\* ================================================== enrichment service
SOps == {"generate_summary", "generate_summary_from_text", "translate_text",
         "translate_transcript", "extract_topics", "extract_topics_from_text",
         "enhance_transcript"}


\* the parameters GeminiClient's methods declare (legacy/gemini_api.py)
Signature(method) ==
    CASE method = "generate_summary" -> {"transcript", "max_points", "language"}
      [] method = "translate_text" ->
            {"text", "target_language", "source_language", "timeout"}
      [] method = "translate_transcript" -> {"transcript", "target_language"}
      [] method = "extract_key_topics" -> {"transcript", "num_topics", "language"}

\* the keywords AIService passes in its call of each client method
Passed(method) ==
    CASE method = "generate_summary" -> {"transcript", "max_points", "language"}
      [] method = "translate_text" -> {"text", "target_language", "source_language"}
      [] method = "translate_transcript" ->
            {"transcript", "target_language", "source_language"}
      [] method = "extract_key_topics" -> {"transcript", "num_topics", "language"}

\* what a client method that was entered can return: None or a value
ClientReturns(method) ==
    IF method = "extract_key_topics"
    THEN {PyNone, PyTopics(<< <<"A">> >>), PyTopics(<< <<"A">>, <<"B">> >>)}
    ELSE {PyNone, PyStr(<<"a">>), PyStr(<<"a", "b">>)}

\* is_available, line 100
IsAvailableAlways == TRUE
IsAvailable == available /\ client # "None"

\* except GeminiAPIError around every client call
ServiceCatches(exc) == exc = "GeminiAPIError"

ClientCall(method, outcome) == [method |-> method, outcome |-> outcome]
Returned(calls, ret) == [calls |-> calls, ret |-> ret, exc |-> "-"]
Raised(calls, exc) == [calls |-> calls, ret |-> PyNone, exc |-> exc]

\* the ways one service method wrapping the client method can end: the
\* availability check, the call, the except clause
ServiceMethod(method) ==
    IF ~IsAvailable THEN {Returned(<<>>, PyNone)}
    ELSE IF client = "None"
    THEN {Raised(<<ClientCall(method, "AttributeError")>>, "AttributeError")}
    ELSE IF Passed(method) \subseteq Signature(method)
    THEN {Returned(<<ClientCall(method, r.kind)>>, r) : r \in ClientReturns(method)}
    ELSE IF ServiceCatches("TypeError")
    THEN {Returned(<<ClientCall(method, "TypeError")>>, PyNone)}
    ELSE {Raised(<<ClientCall(method, "TypeError")>>, "TypeError")}

\* generate_summary_from_text / extract_topics_from_text: the availability
\* check, then the transcript-based method
FromText(method) ==
    IF ~IsAvailable THEN {Returned(<<>>, PyNone)} ELSE ServiceMethod(method)

InitService ==
    /\ IdleCaption
    /\ IdleGemini
    /\ IdleTrunc
    /\ IdleLocator
    /\ IdleCli
    /\ \/ client = "None" /\ available = FALSE
       \/ client = "GeminiClient" /\ available = TRUE
    /\ sop \in SOps
    /\ IF sop = "enhance_transcript"
       THEN /\ enable_summary \in BOOLEAN
            /\ enable_translation \in BOOLEAN
            /\ target_language \in {PyNone, PyStr(<<>>), PyStr(<<"e", "n">>)}
            /\ enable_topics \in BOOLEAN
       ELSE /\ enable_summary = FALSE
            /\ enable_translation = FALSE
            /\ target_language = PyNone
            /\ enable_topics = FALSE
    /\ slog = <<>>
    /\ sresult = NoResult
    /\ sexc = "-"
    /\ spc = "start"

SFixed == <<client, available, sop, enable_summary, enable_translation,
            target_language, enable_topics>>

\* a single operation of the service ending the way r says
EndWith(r) ==
    /\ slog' = slog \o r.calls
    /\ sexc' = r.exc
    /\ IF r.exc = "-"
       THEN sresult' = [sresult EXCEPT !.value = r.ret] /\ spc' = "done"
       ELSE UNCHANGED sresult /\ spc' = "raised"

SingleOp(op, outcomes) ==
    /\ spc = "start"
    /\ sop = op
    /\ UNCHANGED <<SFixed, notSvc>>
    /\ \E r \in outcomes : EndWith(r)

\* lines 102-133
SvcGenerateSummary == SingleOp("generate_summary", ServiceMethod("generate_summary"))
\* lines 135-158
SvcGenerateSummaryFromText ==
    SingleOp("generate_summary_from_text", FromText("generate_summary"))
\* lines 160-191
SvcTranslateText == SingleOp("translate_text", ServiceMethod("translate_text"))
\* lines 193-224
SvcTranslateTranscript ==
    SingleOp("translate_transcript", ServiceMethod("translate_transcript"))
\* lines 226-257
SvcExtractTopics == SingleOp("extract_topics", ServiceMethod("extract_key_topics"))
\* lines 259-282
SvcExtractTopicsFromText ==
    SingleOp("extract_topics_from_text", FromText("extract_key_topics"))

\* enhance_transcript, lines 311-322
EnhanceBegin ==
    /\ spc = "start"
    /\ sop = "enhance_transcript"
    /\ UNCHANGED <<SFixed, slog, sexc, notSvc>>
    /\ sresult' = NoResult
    /\ spc' = IF ~IsAvailable THEN "done" ELSE "summary"

\* if target_language: None and '' are false
Truthy(v) == v.kind # "None" /\ v.val # <<>>

\* one feature block of enhance_transcript: if requested, result[key] = the
\* service method; an exception leaves enhance_transcript
Feature(here, requested, method, key, next) ==
    /\ spc = here
    /\ sop = "enhance_transcript"
    /\ UNCHANGED <<SFixed, notSvc>>
    /\ IF ~requested
       THEN /\ spc' = next
            /\ UNCHANGED <<slog, sresult, sexc>>
       ELSE \E r \in ServiceMethod(method) :
              /\ slog' = slog \o r.calls
              /\ sexc' = r.exc
              /\ IF r.exc = "-"
                 THEN sresult' = [sresult EXCEPT ![key] = r.ret] /\ spc' = next
                 ELSE UNCHANGED sresult /\ spc' = "raised"

\* lines 325-330
EnhanceSummary ==
    Feature("summary", enable_summary, "generate_summary", "summary", "translation")
\* lines 333-337
EnhanceTranslation ==
    Feature("translation", enable_translation /\ Truthy(target_language),
            "translate_transcript", "translation", "topics")
\* lines 340-350
EnhanceTopics ==
    Feature("topics", enable_topics, "extract_key_topics", "topics", "done")

NextService ==
    \/ SvcGenerateSummary
    \/ SvcGenerateSummaryFromText
    \/ SvcTranslateText
    \/ SvcTranslateTranscript
    \/ SvcExtractTopics
    \/ SvcExtractTopicsFromText
    \/ EnhanceBegin
    \/ EnhanceSummary
    \/ EnhanceTranslation
    \/ EnhanceTopics

SpecService == InitService /\ [][NextService]_vars

\* ------------------------------------------------ enrichment service claims
Absent(r) == r = NoResult

\* C13: on a service whose is_available() is false every enrichment operation
\* returns None (enhance_transcript: summary, translation and topics all
\* None), raises nothing and makes no call on the client.
C13_UnavailableAbsent ==
    ~(available /\ client # "None") =>
        /\ spc # "raised"
        /\ slog = <<>>
        /\ Absent(sresult)

C13_Witness ==
    /\ ~available
    /\ sop = "enhance_transcript"
    /\ enable_summary /\ enable_translation /\ enable_topics
    /\ Truthy(target_language)
    /\ spc = "done"
    /\ Absent(sresult)

MethodOf(key) ==
    CASE key = "summary" -> "generate_summary"
      [] key = "translation" -> "translate_transcript"
      [] key = "topics" -> "extract_key_topics"
Requested(key) ==
    CASE key = "summary" -> enable_summary
      [] key = "translation" -> enable_translation /\ target_language.kind = "str"
                                  /\ target_language.val # <<>>
      [] key = "topics" -> enable_topics
InvokedFor(key) == \E i \in 1..Len(slog) : slog[i].method = MethodOf(key)

\* C14: enhance_transcript on an available service never raises; a feature
\* that was not requested stays None and its client operation is never
\* invoked; every requested feature is invoked and its field holds what its
\* own operation returned (None when it failed), whatever the others did.
C14_EnhanceNeverRaises ==
    (sop = "enhance_transcript" /\ available /\ client # "None") =>
        /\ spc # "raised"
        /\ \A key \in {"summary", "translation", "topics"} :
              /\ ~Requested(key) => sresult[key] = PyNone /\ ~InvokedFor(key)
              /\ (spc = "done" /\ Requested(key)) =>
                    \E i \in 1..Len(slog) :
                       /\ slog[i].method = MethodOf(key)
                       /\ slog[i].outcome = sresult[key].kind

\* ============================================================ locators
Scheme == <<"h", "t", "t", "p", "s", ":", "/", "/">>
Www == <<"w", "w", "w", ".">>
YouTubeCom == <<"y", "o", "u", "t", "u", "b", "e", ".", "c", "o", "m", "/">>
WatchV == <<"w", "a", "t", "c", "h", "?", "v", "=">>
YoutuBe == <<"y", "o", "u", "t", "u", ".", "b", "e", "/">>
Embed == <<"e", "m", "b", "e", "d", "/">>
VSlash == <<"v", "/">>
PlaylistQ == <<"p", "l", "a", "y", "l", "i", "s", "t", "?">>
ListEq == <<"l", "i", "s", "t", "=">>
OtherHost == <<"x", ".", "i", "o", "/">>

\* the three regular expressions of extract_video_id, each as the literals
\* of its alternatives; every one is followed by the group ([^&\n?#]+)
patterns ==
    << <<YouTubeCom \o WatchV, YoutuBe>>,
       <<YouTubeCom \o Embed>>,
       <<YouTubeCom \o VSlash>> >>
\* the characters the group [^&\n?#] excludes
StopCharsNoQuery == {"&", NL, "#"}
StopChars == {"&", NL, "?", "#"}

\* literal lit matches at 0-based index i and the group has a first character
MatchAt(str, lit, i) ==
    /\ OccursAt(str, lit, i)
    /\ i + Len(lit) < Len(str)
    /\ str[i + Len(lit) + 1] \notin StopChars

\* the greedy group starting at 1-based position b
GroupFrom(str, b) ==
    LET E == {e \in b..Len(str) : \A k \in b..e : str[k] \notin StopChars}
    IN  SubSeq(str, b, CHOOSE e \in E : \A f \in E : f <= e)

\* re.search(pattern, url) and match.group(1): leftmost match, alternatives
\* in order; None when the pattern matches nowhere
SearchGroup(str, alts) ==
    LET S == {i \in 0..Len(str) : \E a \in 1..Len(alts) : MatchAt(str, alts[a], i)}
    IN  IF S = {} THEN PyNone
        ELSE LET i == CHOOSE j \in S : \A h \in S : j <= h
                 A == {a \in 1..Len(alts) : MatchAt(str, alts[a], i)}
                 a == CHOOSE c \in A : \A d \in A : c <= d
             IN  PyStr(GroupFrom(str, i + Len(alts[a]) + 1))

\* extract_video_id, lines 22-33
ExtractVideoId(u) ==
    LET M == {k \in 1..Len(patterns) : SearchGroup(u, patterns[k]) # PyNone}
    IN  IF M = {} THEN PyNone
        ELSE SearchGroup(u, patterns[CHOOSE k \in M : \A j \in M : k <= j])

\* ---- the locators the operations are given
IdChars == {"a", "Z", "9", "_", "-"}
Idents == UNION {[1..n -> IdChars] : n \in 1..MaxId}
Shapes == {"watch", "short", "embed", "v"}
ShapeUrl(sh, id) ==
    CASE sh = "watch" -> YouTubeCom \o WatchV \o id
      [] sh = "short" -> YoutuBe \o id
      [] sh = "embed" -> YouTubeCom \o Embed \o id
      [] sh = "v" -> YouTubeCom \o VSlash \o id
WatchUrl(id) == Scheme \o Www \o YouTubeCom \o WatchV \o id
Prefixes == {<<>>, Scheme, Scheme \o Www}
\* trailing query parameters and fragments
Suffixes ==
    {<<>>,
     <<"&", "t", "=", "1">>,
     <<"?", "t", "=", "1">>,
     <<"#", "t">>,
     <<"&">> \o ListEq \o <<"P", "L">>,
     <<"?">> \o ListEq \o <<"P", "L">>,
     <<"?", "s", "i", "=", "a", "&", "t", "=", "1">>,
     <<"&", "f", "e", "a", "t", "u", "r", "e", "=", "y", "o", "u", "t", "u",
       ".", "b", "e">>}
ShapedLocators ==
    {[url |-> pre \o ShapeUrl(sh, id) \o suf, shape |-> sh, ident |-> id] :
        pre \in Prefixes, sh \in Shapes, id \in Idents, suf \in Suffixes}

Segments ==
    {YouTubeCom, WatchV, YoutuBe, Embed, VSlash, PlaylistQ, ListEq, OtherHost,
     <<"&">>, <<"?">>, <<"a">>}
RECURSIVE Flatten(_)
Flatten(segs) == IF segs = <<>> THEN <<>> ELSE Head(segs) \o Flatten(Tail(segs))
FreeLocators ==
    {[url |-> Flatten(segs), shape |-> "free", ident |-> <<>>] :
        segs \in UNION {[1..n -> Segments] : n \in 0..MaxSegs}}
Locators == ShapedLocators \cup FreeLocators
\* plain watch locators
WatchLocators ==
    {l \in ShapedLocators :
        l.shape = "watch" /\ l.url = WatchUrl(l.ident) /\ Len(l.ident) = 1}

\* ---- playlist_handler
\* re.search(r'[?&]list=([^&]+)', url)
HasListParam(u) ==
    \E i \in 1..Len(u) :
        /\ u[i] \in {"?", "&"}
        /\ OccursAt(u, ListEq, i)
        /\ i + Len(ListEq) < Len(u)
        /\ u[i + Len(ListEq) + 1] # "&"
\* re.search(r'/playlist\?', url)
HasPlaylistPath(u) == \E i \in 0..Len(u) : OccursAt(u, <<"/">> \o PlaylistQ, i)
\* is_playlist_url, lines 25-34
IsPlaylistUrl(u) == HasListParam(u) \/ HasPlaylistPath(u)

\* extract_playlist_id, lines 47-50: group 1 of the leftmost match of
\* [?&]list=([^&]+)
ExtractPlaylistId(u) ==
    LET M == {i \in 1..Len(u) :
                /\ u[i] \in {"?", "&"}
                /\ OccursAt(u, ListEq, i)
                /\ i + Len(ListEq) < Len(u)
                /\ u[i + Len(ListEq) + 1] # "&"}
    IN  IF M = {} THEN PyNone
        ELSE LET i == CHOOSE m \in M : \A n \in M : m <= n
                 from == i + Len(ListEq) + 1
                 E == {e \in from..Len(u) : \A j \in from..e : u[j] # "&"}
             IN  PyStr(SubSeq(u, from, CHOOSE e \in E : \A f \in E : f <= e))

\* the entries of a provider answer: None, a dict (with or without an id), a
\* str (an id or a url), anything else
EntryNone == [kind |-> "None", id |-> PyNone, val |-> <<>>]
EntryDict(id) == [kind |-> "dict", id |-> id, val |-> <<>>]
EntryStr(v) == [kind |-> "str", id |-> PyNone, val |-> v]
EntryOther == [kind |-> "other", id |-> PyNone, val |-> <<>>]
Entries ==
    {EntryNone, EntryDict(PyStr(<<"a">>)), EntryDict(PyNone), EntryStr(<<"Z">>),
     EntryStr(WatchUrl(<<"9">>)), EntryOther}
EntryLists == UNION {[1..n -> Entries] : n \in 0..MaxPlaylist}

\* what ydl.extract_info(url, download=False) can do in get_playlist_info:
\* raise, return None, return an info dict; playlist_count -1 stands for a
\* missing playlist_count, entries "None" / "other" for a null / non-list
PlaylistInfoAnswer(type, entries, items, count) ==
    [kind |-> "info", type |-> type, entries |-> entries, items |-> items,
     playlist_count |-> count]
PlaylistAnswers ==
    {[kind |-> k, type |-> "-", entries |-> "None", items |-> <<>>,
      playlist_count |-> -1] : k \in {"exception", "none"}}
    \cup {PlaylistInfoAnswer("video", "None", <<>>, -1)}
    \cup {PlaylistInfoAnswer("playlist", e, <<>>, c) :
             e \in {"None", "other"}, c \in {-1, 5}}
    \cup {PlaylistInfoAnswer("playlist", "list", l, c) :
             l \in EntryLists, c \in {-1, 5}}

\* get_playlist_info, lines 69-103
GetPlaylistInfo(o) ==
    IF o.kind # "info" \/ o.type # "playlist" THEN NoInfo
    ELSE LET entries == IF o.entries = "list" THEN o.items ELSE <<>>
         IN  [kind |-> "dict",
              video_count |->
                  IF o.playlist_count # -1 THEN o.playlist_count
                  ELSE Len(SelectSeq(entries, LAMBDA e : e.kind # "None")),
              entries |-> entries]

StartsWithHttp(v) == Len(v) >= 4 /\ SubSeq(v, 1, 4) = <<"h", "t", "t", "p">>
VideoItem(id, u, position) == [id |-> id, url |-> u, position |-> position]

\* lines 120-154: the videos one entry at 0-based position contributes
VideosOfEntry(entry, position) ==
    CASE entry.kind = "dict" ->
            IF entry.id.kind = "str" /\ entry.id.val # <<>>
            THEN <<VideoItem(entry.id.val, WatchUrl(entry.id.val), position)>>
            ELSE <<>>
      [] entry.kind = "str" /\ entry.val # <<>> ->
            <<VideoItem(IF ExtractVideoId(entry.val) # PyNone
                        THEN ExtractVideoId(entry.val).val ELSE entry.val,
                        IF StartsWithHttp(entry.val) THEN entry.val
                        ELSE WatchUrl(entry.val),
                        position)>>
      [] OTHER -> <<>>

\* get_video_urls_from_playlist(url, playlist_info), lines 110-156
GetVideoUrlsFromPlaylist(info) ==
    IF info = NoInfo THEN <<>>
    ELSE Flatten([i \in 1..Len(info.entries) |->
                    VideosOfEntry(info.entries[i], i - 1)])

LogEvent(op, outcome) == [op |-> op, outcome |-> outcome]

\* ---- youtube_api.get_video_metadata
MetadataKeys ==
    {"title", "description", "channel", "upload_date", "duration", "view_count"}
\* what ydl.extract_info(url, download=False) can do in get_video_metadata:
\* raise, return None, return an info dict holding some of the keys (the
\* title possibly null)
MetadataAnswers ==
    {[kind |-> k, keys |-> {}, null_title |-> FALSE] : k \in {"DownloadError", "none"}}
    \cup {[kind |-> "info", keys |-> K, null_title |-> FALSE] : K \in SUBSET MetadataKeys}
    \cup {[kind |-> "info", keys |-> MetadataKeys, null_title |-> TRUE]}

\* lines 86-93
DefaultMetadata ==
    Metadata("Unknown Title", "No description available", "Unknown Channel",
             "Unknown Date", 0, 0)
\* lines 76-83: info.get(key, default)
InfoMetadata(o) ==
    Metadata(IF "title" \notin o.keys THEN "Unknown Title"
             ELSE IF o.null_title THEN "None" ELSE "T",
             IF "description" \in o.keys THEN "D" ELSE "No description available",
             IF "channel" \in o.keys THEN "C" ELSE "Unknown Channel",
             IF "upload_date" \in o.keys THEN "20240101" ELSE "Unknown Date",
             IF "duration" \in o.keys THEN 7 ELSE 0,
             IF "view_count" \in o.keys THEN 9 ELSE 0)

\* what the try-block raises on answer o ("-": nothing); info.get on None is
\* an AttributeError
RaisedInTry(o) ==
    CASE o.kind = "DownloadError" -> "DownloadError"
      [] o.kind = "none" -> "AttributeError"
      [] OTHER -> "-"
\* line 84: except Exception
MetadataCatchesDownloadOnly(exc) == exc = "DownloadError"
MetadataCatches(exc) == exc \in {"DownloadError", "AttributeError"}

\* get_video_metadata(url) on provider answer o: the returned dict and the
\* exception that escapes ("-": none)
GetVideoMetadata(o) ==
    IF RaisedInTry(o) = "-" THEN [ret |-> InfoMetadata(o), exc |-> "-"]
    ELSE IF MetadataCatches(RaisedInTry(o)) THEN [ret |-> DefaultMetadata, exc |-> "-"]
    ELSE [ret |-> NoMetadata, exc |-> RaisedInTry(o)]

\* ---- core/youtube_service.YouTubeService
\* the parameters the functions of youtube_api declare
Params(f) ==
    CASE f = "get_video_metadata" -> {"url"}
      [] f = "get_transcript_with_timestamps" -> {"video_id", "languages"}
\* the keywords YouTubeService passes to them, lines 68 and 105-109
ServiceKeywords(f) ==
    CASE f = "get_video_metadata" -> {"api_v3_format"}
      [] f = "get_transcript_with_timestamps" -> {"languages", "prefer_manual"}
\* a call with a keyword the function does not declare is a TypeError
Binds(f) == ServiceKeywords(f) \subseteq Params(f)

\* line 150: if not video_id
NotVideoIdNever(v) == FALSE
NotVideoId(v) == v.kind = "None" \/ v.val = <<>>

\* what the caption engine hands back (see Spec): a list of entries,
\* possibly empty
CaptionAnswers == {ListPayload(<<>>), ListPayload(<<0>>), ListPayload(<<0, 1>>)}

\* ---- legacy/cli.process_single_video
Features == {"summary", "translate", "topics"}
SaveOutcomes == {"ok", "OSError"}
NoEnrichment == [summary |-> PyNone, translation |-> PyNone, topics |-> PyNone]

\* what one call did: the returned bool, the exception that left it ("-":
\* none), what it fetched, whether formatter.save completed, and its
\* provider and formatter events in order
ItemResult(ret, exc, md, tr, en, saved, events) ==
    [ret |-> ret, exc |-> exc, metadata |-> md, transcript |-> tr,
     enrich |-> en, saved |-> saved, events |-> events]

\* line 318: except Exception
PsvCatchesNothing(exc) == FALSE
PsvCatches(exc) == exc \in {"DownloadError", "AttributeError", "TypeError", "OSError"}

\* the try-block ended with exception exc
PsvFailed(exc, md, tr, en, events) ==
    IF PsvCatches(exc) THEN ItemResult(FALSE, "-", md, tr, en, FALSE, events)
    ELSE ItemResult(FALSE, exc, md, tr, en, FALSE, events)

\* lines 256-296: the client methods never raise, each requested feature
\* ends with None or a value
FeatureReturns(a, tr, feature, method) ==
    IF a.client /\ tr.items # <<>> /\ feature \in a.features
    THEN ClientReturns(method) ELSE {PyNone}

\* lines 228-320 for the answers mo (metadata provider), co (caption
\* engine), en (client methods) and so (formatter.save)
ProcessSingleVideo(mo, co, en, so) ==
    LET m == GetVideoMetadata(mo)
        e1 == <<LogEvent("metadata.extract_info", mo.kind)>>
        e2 == Append(e1, LogEvent("captions", IF co.items = <<>> THEN "empty" ELSE "payload"))
        e3 == Append(e2, LogEvent("save", so))
    IN  IF m.exc # "-" THEN PsvFailed(m.exc, NoMetadata, NoValue, NoEnrichment, e1)
        ELSE IF m.ret.title = "None"
        THEN PsvFailed("TypeError", m.ret, co, en, e2)
        ELSE IF so # "ok" THEN PsvFailed(so, m.ret, co, en, e3)
        ELSE ItemResult(TRUE, "-", m.ret, co, en, TRUE, e3)

\* every way one call can go on the answers mo, co, so
OutcomesFor(a, mo, co, so) ==
    {ProcessSingleVideo(mo, co,
                        [summary |-> su, translation |-> tr, topics |-> to], so) :
        su \in FeatureReturns(a, co, "summary", "generate_summary"),
        tr \in FeatureReturns(a, co, "translate", "translate_transcript"),
        to \in FeatureReturns(a, co, "topics", "extract_key_topics")}
\* every way one call can go, the providers answering from MO and CO
ProcessSingleVideoOutcomes(a, MO, CO) ==
    UNION {OutcomesFor(a, mo, co, so) : mo \in MO, co \in CO, so \in SaveOutcomes}

\* argument sets of a single call
ArgSets ==
    {Args(FALSE, {}, 0), Args(TRUE, {"summary"}, 0),
     Args(TRUE, {"translate", "topics"}, 0), Args(TRUE, Features, 0)}

LOps == {"extract_video_id", "process_playlist_or_video", "get_video_metadata",
         "get_video_info", "process_single_video", "extract_playlist_id"}

InitLocator ==
    /\ IdleCaption
    /\ IdleGemini
    /\ IdleTrunc
    /\ IdleService
    /\ lop \in LOps
    /\ \E l \in (IF lop \in {"get_video_metadata", "process_single_video"}
                THEN WatchLocators ELSE Locators) :
          url = l.url /\ shape = l.shape /\ ident = l.ident
    /\ video_id = PyNone
    /\ playlist_id = PyNone
    /\ lresult = NoClassification
    /\ metadata = NoMetadata
    /\ ltranscript = NoValue
    /\ llog = <<>>
    /\ lexc = "-"
    /\ lpc = "start"
    /\ args \in (IF lop = "process_single_video" THEN ArgSets ELSE {Args(FALSE, {}, 0)})
    /\ videos = <<>>
    /\ done_count = 0
    /\ success_count = 0
    /\ results = <<>>
    /\ clog = <<>>
    /\ cpc = "idle"

\* what the other operations leave alone: the arguments, and playlist_id
LFixed == <<url, shape, ident, lop, playlist_id>>

\* extract_video_id(url)
ExtractVideoIdCall ==
    /\ lpc = "start"
    /\ lop = "extract_video_id"
    /\ video_id' = ExtractVideoId(url)
    /\ lpc' = "done"
    /\ UNCHANGED <<LFixed, lresult, metadata, ltranscript, llog, lexc, cliVars, notLoc>>

\* PlaylistHandler.extract_playlist_id(url)
ExtractPlaylistIdCall ==
    /\ lpc = "start"
    /\ lop = "extract_playlist_id"
    /\ playlist_id' = ExtractPlaylistId(url)
    /\ lpc' = "done"
    /\ UNCHANGED <<url, shape, ident, lop, video_id, lresult, metadata, ltranscript,
                   llog, lexc, cliVars, notLoc>>

\* process_playlist_or_video, lines 207-232: the collection branch on the
\* provider answer o
ClassifyPlaylist(o) ==
    LET playlist_info == GetPlaylistInfo(o)
    IN  IF playlist_info = NoInfo THEN Classified("unknown", <<>>, NoInfo)
        ELSE Classified("playlist", GetVideoUrlsFromPlaylist(playlist_info),
                        [playlist_info EXCEPT !.entries = <<>>])
\* lines 235-253: the single-video branch
ClassifyVideo(u) ==
    LET v == ExtractVideoId(u)
    IN  IF v.kind = "str" /\ v.val # <<>>
        THEN Classified("video", <<VideoItem(v.val, u, 0)>>, NoInfo)
        ELSE Classified("unknown", <<>>, NoInfo)

\* process_playlist_or_video, lines 203-253
ProcessPlaylistOrVideo ==
    /\ lpc = "start"
    /\ lop = "process_playlist_or_video"
    /\ lpc' = "done"
    /\ UNCHANGED <<LFixed, metadata, ltranscript, lexc, cliVars, notLoc>>
    /\ IF IsPlaylistUrl(url)
       THEN \E o \in PlaylistAnswers :
              /\ llog' = Append(llog, LogEvent("playlist.extract_info", o.kind))
              /\ UNCHANGED video_id
              /\ lresult' = ClassifyPlaylist(o)
       ELSE /\ video_id' = ExtractVideoId(url)
            /\ UNCHANGED llog
            /\ lresult' = ClassifyVideo(url)

\* get_video_metadata(url), lines 66-93
GetVideoMetadataCall ==
    /\ lpc = "start"
    /\ lop = "get_video_metadata"
    /\ UNCHANGED <<LFixed, video_id, lresult, ltranscript, cliVars, notLoc>>
    /\ \E o \in MetadataAnswers :
         LET r == GetVideoMetadata(o)
         IN  /\ llog' = Append(llog, LogEvent("metadata.extract_info", o.kind))
             /\ metadata' = r.ret
             /\ lexc' = r.exc
             /\ lpc' = IF r.exc = "-" THEN "done" ELSE "raised"

\* the operation ends with exception exc, returning nothing
RaiseFrom(exc) ==
    /\ lexc' = exc
    /\ lpc' = "raised"
    /\ metadata' = NoMetadata
    /\ ltranscript' = NoValue

\* YouTubeService.get_video_info, lines 145-161, with get_video_metadata
\* (lines 65-79) and get_transcript (lines 101-120) of the service
GetVideoInfo ==
    /\ lpc = "start"
    /\ lop = "get_video_info"
    /\ UNCHANGED <<LFixed, lresult, cliVars, notLoc>>
    /\ video_id' = ExtractVideoId(url)
    /\ IF NotVideoId(video_id')
       THEN RaiseFrom("ValueError") /\ UNCHANGED llog
       ELSE IF ~Binds("get_video_metadata")
       THEN RaiseFrom("TypeError") /\ UNCHANGED llog
       ELSE \E mo \in MetadataAnswers :
              LET m == GetVideoMetadata(mo)
                  mlog == Append(llog, LogEvent("metadata.extract_info", mo.kind))
              IN  IF m.exc # "-"
                  THEN RaiseFrom(m.exc) /\ llog' = mlog
                  ELSE IF ~Binds("get_transcript_with_timestamps")
                  THEN RaiseFrom("TypeError") /\ llog' = mlog
                  ELSE \E co \in CaptionAnswers :
                         /\ llog' = Append(mlog, LogEvent("captions", "payload"))
                         /\ metadata' = m.ret
                         /\ ltranscript' = co
                         /\ lexc' = "-"
                         /\ lpc' = "done"

\* process_single_video(video_url, video_id, formatter, args, gemini_client)
ProcessSingleVideoCall ==
    /\ lpc = "start"
    /\ lop = "process_single_video"
    /\ UNCHANGED <<LFixed, lresult, notLoc>>
    /\ UNCHANGED <<args, videos, done_count, success_count, clog, cpc>>
    /\ video_id' = PyStr(ident)
    /\ \E r \in ProcessSingleVideoOutcomes(args, MetadataAnswers, CaptionAnswers) :
         /\ results' = <<r>>
         /\ llog' = r.events
         /\ metadata' = r.metadata
         /\ ltranscript' = r.transcript
         /\ lexc' = r.exc
         /\ lpc' = IF r.exc = "-" THEN "done" ELSE "raised"

NextLocator ==
    \/ ExtractVideoIdCall
    \/ ProcessPlaylistOrVideo
    \/ GetVideoMetadataCall
    \/ GetVideoInfo
    \/ ProcessSingleVideoCall
    \/ ExtractPlaylistIdCall

SpecLocator == InitLocator /\ [][NextLocator]_vars

\* ==================================================== command line main
\* the locators main is run on
CliLocators ==
    {YouTubeCom \o PlaylistQ \o ListEq \o <<"P", "L">>,
     WatchUrl(<<"a">>) \o <<"&">> \o ListEq \o <<"P", "L">>,
     WatchUrl(<<"a">>),
     OtherHost \o <<"a">>}
ItemIds == <<"a", "Z", "9", "_", "-">>
ItemEntry(i) == EntryDict(PyStr(<<ItemIds[((i - 1) % Len(ItemIds)) + 1]>>))
\* the playlist answers main is run on: failure, n resolved entries, and a
\* list with a null entry
CollectionAnswers ==
    {a \in PlaylistAnswers : a.kind = "exception"}
    \cup {PlaylistInfoAnswer("playlist", "list", [i \in 1..n |-> ItemEntry(i)], -1) :
             n \in 0..MaxItems}
    \cup {PlaylistInfoAnswer("playlist", "list",
                              <<ItemEntry(1), EntryNone, ItemEntry(2)>>, -1)}
\* the provider answers of one item of a collection
ItemMetadataAnswers ==
    {o \in MetadataAnswers :
        o.kind = "DownloadError" \/ (o.kind = "info" /\ o.keys = MetadataKeys)}
ItemCaptionAnswers == {ListPayload(<<>>), ListPayload(<<0>>)}
CliArgSets ==
    {Args(FALSE, {}, m) : m \in {-1, 0, 1, 2}} \cup {Args(TRUE, {"summary"}, 0)}

InitCli ==
    /\ IdleCaption
    /\ IdleGemini
    /\ IdleTrunc
    /\ IdleService
    /\ url \in CliLocators
    /\ shape = "-"
    /\ ident = <<>>
    /\ lop = "main"
    /\ video_id = PyNone
    /\ playlist_id = PyNone
    /\ lresult = NoClassification
    /\ metadata = NoMetadata
    /\ ltranscript = NoValue
    /\ llog = <<>>
    /\ lexc = "-"
    /\ lpc = "idle"
    /\ args \in CliArgSets
    /\ videos = <<>>
    /\ done_count = 0
    /\ success_count = 0
    /\ results = <<>>
    /\ clog = <<>>
    /\ cpc = "start"

CliFixed == <<url, shape, ident, lop, video_id, playlist_id, metadata, ltranscript, lexc, lpc,
              args>>

\* lines 375-376: the cap on the working set
CapVideos(vs) ==
    IF args.max_videos # 0 /\ args.max_videos < Len(vs)
    THEN SliceTo(vs, args.max_videos) ELSE vs

\* YouTubeService.get_playlist_videos, lines 225-226: the cap m on vs
GetPlaylistVideosCap(vs, m) ==
    IF m # 0 /\ m > 0 THEN SliceTo(vs, m) ELSE vs

\* main, lines 361-378 and 401, 424-426: classify the locator, the playlist
\* provider answering from A
MainClassifyOn(A) ==
    /\ cpc = "start"
    /\ UNCHANGED <<CliFixed, done_count, success_count, results, clog, notCli>>
    /\ \E r \in (IF IsPlaylistUrl(url)
                 THEN {ClassifyPlaylist(o) : o \in A}
                 ELSE {ClassifyVideo(url)}) :
         /\ lresult' = r
         /\ llog' = IF IsPlaylistUrl(url)
                    THEN Append(llog, LogEvent("playlist.extract_info", r.type))
                    ELSE llog
         /\ videos' = IF r.type = "playlist" THEN CapVideos(r.videos) ELSE r.videos
         /\ cpc' = CASE r.type = "playlist" -> "loop"
                      [] r.type = "video" -> "single"
                      [] OTHER -> "exit1"

MainClassify == MainClassifyOn(CollectionAnswers)

StartEvent(k) == [ev |-> "start", item |-> k]
FinishEvent(k) == [ev |-> "finish", item |-> k]

\* lines 382-393: one iteration of the loop over videos; an exception that
\* leaves process_single_video ends main (lines 431-435)
MainItem ==
    /\ cpc = "loop"
    /\ done_count < Len(videos)
    /\ UNCHANGED <<CliFixed, lresult, videos, notCli>>
    /\ \E r \in ProcessSingleVideoOutcomes(args, ItemMetadataAnswers,
                                              ItemCaptionAnswers) :
         /\ results' = Append(results, r)
         /\ llog' = llog \o r.events
         /\ IF r.exc # "-"
            THEN /\ clog' = Append(clog, StartEvent(done_count + 1))
                 /\ cpc' = "exit1"
                 /\ UNCHANGED <<done_count, success_count>>
            ELSE /\ clog' = clog \o <<StartEvent(done_count + 1),
                                       FinishEvent(done_count + 1)>>
                 /\ done_count' = done_count + 1
                 /\ success_count' = success_count + (IF r.ret THEN 1 ELSE 0)
                 /\ UNCHANGED cpc

\* lines 395-399: the loop is over
MainLoopEnd ==
    /\ cpc = "loop"
    /\ done_count = Len(videos)
    /\ cpc' = "done"
    /\ UNCHANGED <<CliFixed, lresult, llog, videos, done_count, success_count,
                   results, clog, notCli>>

\* lines 401-422: a single video
MainSingle ==
    /\ cpc = "single"
    /\ UNCHANGED <<CliFixed, lresult, videos, notCli>>
    /\ \E r \in ProcessSingleVideoOutcomes(args, ItemMetadataAnswers,
                                              ItemCaptionAnswers) :
         /\ results' = Append(results, r)
         /\ llog' = llog \o r.events
         /\ clog' = clog \o <<StartEvent(1)>> \o
                       (IF r.exc = "-" THEN <<FinishEvent(1)>> ELSE <<>>)
         /\ done_count' = IF r.exc = "-" THEN 1 ELSE 0
         /\ success_count' = IF r.ret THEN 1 ELSE 0
         /\ cpc' = IF r.ret THEN "done" ELSE "exit1"

NextCli ==
    \/ MainClassify
    \/ MainItem
    \/ MainLoopEnd
    \/ MainSingle

SpecCli == InitCli /\ [][NextCli]_vars

\* ---- main on the five-item collection
FiveItems ==
    PlaylistInfoAnswer("playlist", "list",
                       <<ItemEntry(1), ItemEntry(2), ItemEntry(3), ItemEntry(4),
                         ItemEntry(5)>>, -1)

InitFiveItems ==
    /\ IdleCaption
    /\ IdleGemini
    /\ IdleTrunc
    /\ IdleService
    /\ url = YouTubeCom \o PlaylistQ \o ListEq \o <<"P", "L">>
    /\ shape = "-"
    /\ ident = <<>>
    /\ lop = "main"
    /\ video_id = PyNone
    /\ playlist_id = PyNone
    /\ lresult = NoClassification
    /\ metadata = NoMetadata
    /\ ltranscript = NoValue
    /\ llog = <<>>
    /\ lexc = "-"
    /\ lpc = "idle"
    /\ args = Args(FALSE, {}, 0)
    /\ videos = <<>>
    /\ done_count = 0
    /\ success_count = 0
    /\ results = <<>>
    /\ clog = <<>>
    /\ cpc = "start"

MainClassifyFive == MainClassifyOn({FiveItems})

NextFiveItems ==
    \/ MainClassifyFive
    \/ MainItem
    \/ MainLoopEnd

SpecFiveItems == InitFiveItems /\ [][NextFiveItems]_vars

\* ------------------------------------------------------- locator claims
ShapeLiterals ==
    {YouTubeCom \o WatchV, YoutuBe, YouTubeCom \o Embed, YouTubeCom \o VSlash}
\* the locator holds one of the four shapes somewhere: the shape's literal
\* followed by at least one identifier character
HasVideoShape(u) ==
    \E lit \in ShapeLiterals : \E i \in 1..Len(u) :
        /\ i + Len(lit) <= Len(u)
        /\ SubSeq(u, i, i + Len(lit) - 1) = lit
        /\ u[i + Len(lit)] \notin {"&", "?", "#", NL}

\* C15: a locator built in any of the four shapes around an identifier, with
\* or without trailing query parameters, yields exactly that identifier
\* (hence the same one for all four shapes); a locator holding none of the
\* shapes yields None.
C15_SameIdAllShapes ==
    (lop = "extract_video_id" /\ lpc = "done") =>
        /\ shape \in Shapes => video_id = PyStr(ident)
        /\ ~HasVideoShape(url) => video_id = PyNone

C15_Witness ==
    /\ lop = "extract_video_id"
    /\ lpc = "done"
    /\ shape = "embed"
    /\ ident = <<"a", "-">>
    /\ url = Scheme \o Www \o YouTubeCom \o Embed \o <<"a", "-">>
               \o <<"?", "s", "i", "=", "a", "&", "t", "=", "1">>
    /\ video_id = PyStr(<<"a", "-">>)

\* C16: a locator carrying a video identifier in a supported shape and a
\* list parameter is classified 'playlist' by process_playlist_or_video.
C16_BothMeansPlaylist ==
    (/\ lop = "process_playlist_or_video"
     /\ lpc = "done"
     /\ shape \in Shapes
     /\ HasListParam(url))
        => lresult.type = "playlist"

\* the locator holds no video shape and no collection marker
Unrecognised(u) == ~HasVideoShape(u) /\ ~HasListParam(u) /\ ~HasPlaylistPath(u)

\* C17: for a locator with no video shape and no collection marker the
\* classification is 'unknown' with an empty video list, and get_video_info
\* ends with ValueError, at once and with no provider invoked.
C17_UnrecognisedRejected ==
    Unrecognised(url) =>
        /\ (lop = "process_playlist_or_video" /\ lpc = "done") =>
              /\ lresult.type = "unknown"
              /\ lresult.videos = <<>>
              /\ llog = <<>>
        /\ (lop = "get_video_info" /\ lpc # "start") =>
              /\ lpc = "raised"
              /\ lexc = "ValueError"
              /\ llog = <<>>

C17_Witness ==
    /\ lop = "get_video_info"
    /\ url = OtherHost \o WatchV \o <<"a">>
    /\ lpc = "raised"
    /\ lexc = "ValueError"
    /\ llog = <<>>

MetadataTypes(m) ==
    /\ m.kind = "dict"
    /\ DOMAIN m = DOMAIN DefaultMetadata
    /\ m.title # "-" /\ m.description # "-" /\ m.channel # "-" /\ m.upload_date # "-"

\* C18: get_video_metadata never raises, always returns a dict with the six
\* keys, and returns the sentinel defaults when the provider failed.
C18_MetadataTotal ==
    lop = "get_video_metadata" =>
        /\ lpc # "raised"
        /\ lpc = "done" =>
              /\ MetadataTypes(metadata)
              /\ llog[1].outcome # "info" =>
                    /\ metadata.title = "Unknown Title"
                    /\ metadata.channel = "Unknown Channel"
                    /\ metadata.duration = 0
                    /\ metadata.view_count = 0

C18_Witness ==
    /\ lop = "get_video_metadata"
    /\ lpc = "done"
    /\ llog = <<LogEvent("metadata.extract_info", "none")>>
    /\ metadata = DefaultMetadata

Attempted(op) == \E i \in 1..Len(llog) : llog[i].op = op
CaptionsFailed == \E i \in 1..Len(llog) : llog[i].op = "captions" /\ llog[i].outcome = "empty"

\* C19: when one item (a locator with a video identifier) is processed, by
\* YouTubeService.get_video_info or by process_single_video, caption
\* acquisition is attempted whatever the metadata fetch did, and the
\* operation does not end in an exception on account of either step; with
\* failed captions the metadata still reaches the result (the returned dict,
\* the formatter).
C19_StepsIndependent ==
    (/\ lop \in {"get_video_info", "process_single_video"}
     /\ lpc # "start"
     /\ video_id # PyNone)
        => /\ Attempted("captions")
           /\ lpc = "done"
           /\ metadata.kind = "dict"
           /\ (CaptionsFailed /\ lop = "process_single_video"
                  /\ metadata.title # "None") => Attempted("save")

\* ---------------------------------------------------- command line claims
FailedItems == Len(SelectSeq(results, LAMBDA r : ~r.ret))

\* C20: in a collection run the items of the working set are processed one
\* at a time in list order (item k+1 starts right after item k finished,
\* nothing starts twice), a failed item never ends the run, and when the run
\* is over every item was processed once and success_count plus the failed
\* items is the size of the working set.
C20_EveryItemOnceInOrder ==
    lresult.type = "playlist" =>
        /\ cpc # "exit1"
        /\ Len(clog) = 2 * done_count
        /\ \A k \in 1..done_count :
              clog[2 * k - 1] = StartEvent(k) /\ clog[2 * k] = FinishEvent(k)
        /\ Len(results) = done_count
        /\ done_count <= Len(videos)
        /\ success_count + FailedItems = done_count
        /\ cpc = "done" => done_count = Len(videos)

C20_Witness ==
    /\ lresult.type = "playlist"
    /\ cpc = "done"
    /\ Len(videos) = 3
    /\ ~results[1].ret
    /\ ~results[2].ret
    /\ results[3].ret
    /\ success_count = 1

\* the metadata provider failed for item k / every other step of item k
\* (captions, save) went well
MetadataFetchFailed(k) == results[k].events[1].outcome = "DownloadError"
MetadataFetched(k) == results[k].events[1].outcome = "info" /\ results[k].metadata.title = "T"
OtherStepsFine(k) ==
    /\ Len(results[k].events) = 3
    /\ results[k].events[2].outcome = "payload"
    /\ results[k].events[3].outcome = "ok"

\* C21: a collection run over 5 items in which the metadata fetch of item 3
\* fails and every other step succeeds ends with 5 results, item 3 carrying
\* the sentinel metadata, and a success count of 4.
C21_FailedMetadataCounted ==
    (/\ cpc = "done"
     /\ Len(videos) = 5
     /\ Len(results) = 5
     /\ MetadataFetchFailed(3)
     /\ \A k \in {1, 2, 4, 5} : MetadataFetched(k)
     /\ \A k \in 1..5 : OtherStepsFine(k))
        => /\ results[3].metadata = DefaultMetadata
           /\ success_count = 4

\* what the code does in that run: item 3 is counted as a success
C21_AsCoded ==
    (/\ cpc = "done"
     /\ Len(videos) = 5
     /\ Len(results) = 5
     /\ MetadataFetchFailed(3)
     /\ \A k \in {1, 2, 4, 5} : MetadataFetched(k)
     /\ \A k \in 1..5 : OtherStepsFine(k))
        => /\ results[3].metadata = DefaultMetadata
           /\ results[3].ret
           /\ success_count = 5

\* the working set the cap m must leave of the resolved list vs
Capped(vs, m) == IF m >= 1 THEN SubSeq(vs, 1, Min2(m, Len(vs))) ELSE vs

\* C22: the working set of a collection run is the prefix of the resolved
\* list of length min(m, n) for a cap m >= 1 and the whole list for a cap that
\* is absent, zero or negative, in main and in get_playlist_videos alike.
C22_CapKeepsPrefix ==
    (lresult.type = "playlist" /\ cpc # "start") =>
        /\ videos = Capped(lresult.videos, args.max_videos)
        /\ GetPlaylistVideosCap(lresult.videos, args.max_videos)
              = Capped(lresult.videos, args.max_videos)

\* what holds of main: the claim for every cap but a negative one
C22_NonNegativeCap ==
    (lresult.type = "playlist" /\ cpc # "start" /\ args.max_videos >= 0) =>
        videos = Capped(lresult.videos, args.max_videos)

\* ------------------------------------------------------ collection claims
\* the item references get_video_urls_from_playlist returned
Returned_videos == lresult.videos

\* C23: whatever the provider's entry list (null entries, entries without
\* an id, entries of unexpected type), the positions of the returned item
\* references are 0, 1, ..., n-1 in list order.
C23_PositionsContiguous ==
    (lop = "process_playlist_or_video" /\ lpc = "done" /\ lresult.type = "playlist") =>
        \A i \in 1..Len(Returned_videos) : Returned_videos[i].position = i - 1

\* what holds of the code: positions are the indices of the entries in the
\* provider's list, strictly increasing
C23_PositionsIncrease ==
    (lop = "process_playlist_or_video" /\ lpc = "done" /\ lresult.type = "playlist") =>
        /\ \A i \in 1..Len(Returned_videos) : Returned_videos[i].position >= i - 1
        /\ \A i, j \in 1..Len(Returned_videos) :
              i < j => Returned_videos[i].position < Returned_videos[j].position

\* ------------------------------------------------- caption engine claims
NonDecreasing(items) ==
    \A i \in 1..(Len(items) - 1) : items[i].start <= items[i + 1].start

\* C24: every non-empty result of get_transcript_with_timestamps has
\* non-decreasing start values, whatever order the provider delivered.
C24_StartsNonDecreasing ==
    (pc = "done" /\ result.items # <<>>) => NonDecreasing(result.items)

ModernOps == {"fetch", "list", "find_transcript"}
LegacyOps == {"get_transcript", "list_transcripts",
              "find_manually_created_transcript", "find_generated_transcript"}
\* the call recorded in e found its operation on the provider: the
\* generation of that operation is detected
Detects(e) == e.outcome # "absent" /\ e.op \in ModernOps \cup LegacyOps
SameGeneration(a, b) ==
    (a \in ModernOps /\ b \in ModernOps) \/ (a \in LegacyOps /\ b \in LegacyOps)

\* C25: once a call has detected the provider generation, the engine makes
\* no later call that finds its operation missing (a new capability probe)
\* and no later call of an operation of the other generation.
C25_GenerationProbedOnce ==
    \A i, j \in 1..Len(trace) :
        (i < j /\ Detects(trace[i])) =>
            /\ trace[j].outcome # "absent"
            /\ trace[j].op \in ModernOps \cup LegacyOps =>
                  SameGeneration(trace[i].op, trace[j].op)

EnumerationOps == {"find_transcript", "first", "find_manually_created_transcript",
                   "find_generated_transcript"}
\* the preferred languages that have a manually authored track
ManualPreferred ==
    {i \in 1..Len(languages) :
        \E h \in 1..Len(transcript_list) :
            transcript_list[h].manual /\ transcript_list[h].lang = languages[i]}
EarliestManualLang ==
    languages[CHOOSE i \in ManualPreferred : \A j \in ManualPreferred : i <= j]
LastCall == trace[Len(trace)]

\* C26: when the result comes from track enumeration and a manually
\* authored track exists in a preferred language, the returned track is the
\* manual track of the earliest such language in preference order, never an
\* auto-generated one.
C26_ManualTrackPreferred ==
    (/\ pc = "done"
     /\ trace # <<>>
     /\ LastCall.outcome = "payload"
     /\ LastCall.op \in EnumerationOps
     /\ ManualPreferred # {})
        => /\ usedLang = EarliestManualLang
           /\ LastCall.op # "find_generated_transcript"
           /\ LastCall.op = "first" => transcript_list[1].manual

\* what holds of the code: the legacy per-language loop over manual tracks
\* returns the track of the earliest preferred language whose request
\* succeeded, before any generated track is asked for
C26_LegacyManualLoop ==
    (/\ pc = "done"
     /\ trace # <<>>
     /\ LastCall.outcome = "payload"
     /\ LastCall.op = "find_generated_transcript")
        => LoopExhausted(OfOp("find_manually_created_transcript"))

\* ------------------------------------------------------ truncation claims
\* the spaces of the budget window at index lo or later
SpacesFrom(lo) ==
    {i \in lo..(max_chars - 1) : OccursAt(Take(trunc_in, max_chars), <<" ">>, i)}
\* the result the rule gives when "at or beyond 80%" starts at index lo
TruncatedFrom(lo) ==
    IF Len(trunc_in) <= max_chars THEN trunc_out = trunc_in
    ELSE IF \E k \in 1..Len(delimiters) : \E i \in lo..max_chars :
               OccursAt(Take(trunc_in, max_chars), delimiters[k], i)
    THEN \E k \in 1..Len(delimiters) : \E i \in lo..max_chars :
           /\ OccursAt(Take(trunc_in, max_chars), delimiters[k], i)
           /\ trunc_out = Take(trunc_in, i + Len(delimiters[k]))
    ELSE IF SpacesFrom(lo) # {}
    THEN trunc_out = Take(trunc_in, CHOOSE i \in SpacesFrom(lo) :
                                        \A j \in SpacesFrom(lo) : j <= i)
    ELSE trunc_out = Take(trunc_in, max_chars)

\* C27: a text within the budget is returned unchanged; a longer one is cut
\* right after a delimiter lying at or beyond 80% of the budget (index
\* int(0.8 * budget) included), else at the last space at or beyond 80%, else
\* after exactly budget characters.
C27_TruncateAtOrBeyond ==
    tpc = "done" => TruncatedFrom(MinLength(max_chars))

\* what holds of the code: the same rule with the 80% index itself excluded
C27_StrictlyBeyond ==
    tpc = "done" => TruncatedFrom(MinLength(max_chars) + 1)

\* ------------------------------------------------------ classifier claims
ClassifierDone == lop = "process_playlist_or_video" /\ lpc = "done"

\* C28: process_playlist_or_video answers 'unknown' only for a locator
\* without a video identifier: a locator from which extract_video_id obtains
\* an identifier is 'video' or 'playlist' whatever the collection provider
\* answers.
C28_UnknownOnlyWithoutId ==
    (ClassifierDone /\ lresult.type = "unknown") => ExtractVideoId(url) = PyNone

\* what holds of the code: 'unknown' is also the answer for every locator
\* with a collection marker whose provider request gave no playlist
C28_UnknownCases ==
    (ClassifierDone /\ lresult.type = "unknown") =>
        IF IsPlaylistUrl(url)
        THEN llog # <<>> /\ llog[1].op = "playlist.extract_info"
        ELSE ExtractVideoId(url) = PyNone /\ llog = <<>>

\* C29: every locator is_playlist_url accepts has an extractable
\* collection identifier: extract_playlist_id does not return None for it.
C29_AcceptedHasId ==
    (lop = "extract_playlist_id" /\ lpc = "done" /\ IsPlaylistUrl(url)) =>
        playlist_id # PyNone

\* what holds of the code: the identifier exists exactly for the locators
\* with a non-empty list parameter; the /playlist? path alone gives None
C29_IdIffListParam ==
    (lop = "extract_playlist_id" /\ lpc = "done") =>
        /\ playlist_id # PyNone <=> HasListParam(url)
        /\ playlist_id # PyNone => playlist_id.val # <<>>

\* ------------------------------------------------ generative client claims
\* no entry of the transcript holds a non-whitespace character
BlankCaption ==
    \A i \in 1..Len(transcript) : ~transcript[i].has \/ Strip(transcript[i].text) = <<>>
NoProviderCall ==
    /\ Calls = <<>>
    /\ gpc \notin {"call", "raised"}
    /\ gpc = "done" => gresult = PyNone

\* C30: generate_summary, translate_transcript and extract_key_topics return
\* None without a provider call when the caption text holds no
\* non-whitespace character (such as several whitespace-only entries).
C30_BlankCaptionNoCall ==
    (gop \in {"generate_summary", "translate_transcript", "extract_key_topics"}
        /\ BlankCaption) => NoProviderCall

\* what holds of the code: translate_transcript makes no call on a blank
\* caption, the other two make none when the joined text is empty
C30_BlankCases ==
    /\ (gop = "translate_transcript" /\ BlankCaption) => NoProviderCall
    /\ (gop \in {"generate_summary", "extract_key_topics"}
           /\ CombineTranscriptText(transcript) = <<>>) => NoProviderCall

====
